---- MODULE Spec2Model ----
(***************************************************************************)
(* Model of the scoring engine and needs deriver of src/main.py.           *)
(*                                                                         *)
(* Python values are represented as follows.                               *)
(*   str          TLA+ string; `in`, lower(), join() and the regular       *)
(*                expressions are computed character by character.         *)
(*   list         sequence.                                                *)
(*   None         the empty tuple None; an optional value v is <<v>>.      *)
(*   float score  integer number of 1/ScoreScale points, so that the       *)
(*                tenths produced by days_old / 10 and the thirds produced *)
(*                by sum(scores) / 3 are exact.                            *)
(*   call result  Return(v) or Raise(exception name).                      *)
(***************************************************************************)
EXTENDS Integers, Sequences, FiniteSets, TLC

VARIABLES
    community_info,      \* TelegramCommunityInfo handed to the scoring engine
    score_pc,            \* how far the scoring functions have been applied
    scam_indicators,     \* detect_scam_indicators(all_text)
    positive_indicators, \* detect_positive_indicators(all_text)
    legitimacy_score,    \* calculate_legitimacy_score(...), in 1/ScoreScale points
    risk_level,          \* determine_risk_level(...)
    analysis_result,     \* outcome of project_analyzer.analyze_project(community_info)
    research_pc,         \* position of research_project_comprehensive
    session,             \* ProjectResearcher.session: "none", "open" or "closed"
    api_response,        \* what the market-data API answers during this call
    basic_info,          \* locals of research_project_comprehensive
    social_analysis,
    technical_analysis,
    team_analysis,
    community_analysis,
    tokenomics_analysis,
    project_needs,       \* outcome of identify_project_needs
    legitimacy_analysis,
    research_result,     \* outcome of research_project_comprehensive
    telegram_communities, \* rows of the table telegram_communities, in rowid order
    subscribers,         \* table subscribers: chat_id -> stored preferences
    add_log,             \* calls of add_community_alert made so far, with their results
    broadcast,           \* locals of each running broadcast_community_alerts
    sent_messages,       \* alerts handed to bot.send_message, with their destination
    format_pc,           \* "ready" when a formatter is to be called on format_input
    format_input,        \* the alert or analysis handed to the first call
    format_output,       \* the calls made so far: the outcome of each call and
                         \* its argument as the call left it
    job_pc,              \* position of community_monitoring_job
    job_cycle,           \* number of the cycle the job is in
    job_found,           \* len(communities) of the cycle
    job_index,           \* number of the community the for loop is at
    job_new_alerts,      \* new_alerts of the cycle
    call_pc,             \* position of each call of research_project_comprehensive
                         \* on the shared ProjectResearcher
    fetch_log            \* the requests issued by the calls, each with the
                         \* state of the session it was issued on

community_vars == <<community_info, score_pc, scam_indicators, positive_indicators,
                    legitimacy_score, risk_level, analysis_result>>

research_vars == <<research_pc, session, api_response, basic_info, social_analysis,
                   technical_analysis, team_analysis, community_analysis,
                   tokenomics_analysis, project_needs, legitimacy_analysis,
                   research_result>>

store_vars == <<telegram_communities, subscribers, add_log, broadcast, sent_messages>>

format_vars == <<format_pc, format_input, format_output>>

job_vars == <<job_pc, job_cycle, job_found, job_index, job_new_alerts>>

call_vars == <<call_pc, fetch_log>>

\* the variables of one research call other than the shared session
research_locals == <<research_pc, api_response, basic_info, social_analysis,
                     technical_analysis, team_analysis, community_analysis,
                     tokenomics_analysis, project_needs, legitimacy_analysis,
                     research_result>>

vars == <<community_vars, research_vars, store_vars, format_vars, job_vars, call_vars>>

-----------------------------------------------------------------------------
(* Bounds *)

\* number of calls of research_project_comprehensive on one ProjectResearcher
MaxCalls == 2

\* number of cycles of community_monitoring_job in a behaviour
MaxCycles == 2

\* number of communities a search returns
MaxCommunities == 2

\* number of formatter calls in a behaviour
MaxFormatCalls == 2

\* number of add_community_alert calls in a behaviour
MaxAdds == 2

MaxMessages == 1
MaxAdminCount == 2

-----------------------------------------------------------------------------
(* Python helpers *)

None == <<>>
Some(v) == <<v>>

Return(v) == [raised |-> FALSE, exc |-> "", value |-> <<v>>]
Raise(e) == [raised |-> TRUE, exc |-> e, value |-> <<>>]
NotCalled == [raised |-> FALSE, exc |-> "", value |-> <<>>]

Min(a, b) == IF a <= b THEN a ELSE b
Max(a, b) == IF a >= b THEN a ELSE b

\* one score point, as a number of score units
ScoreScale == 3 * 10

\* p in t
IsIn(p, t) == \E i \in 1..(Len(t) - Len(p) + 1) : SubSeq(t, i, i + Len(p) - 1) = p

UpperAlphabet == "ABCDEFGHIJKLMNOPQRSTUVWXYZ"
LowerAlphabet == "abcdefghijklmnopqrstuvwxyz"

LowerChar(c) ==
    IF \E i \in 1..Len(UpperAlphabet) : SubSeq(UpperAlphabet, i, i) = c
    THEN LET i == CHOOSE j \in 1..Len(UpperAlphabet) : SubSeq(UpperAlphabet, j, j) = c
         IN SubSeq(LowerAlphabet, i, i)
    ELSE c

\* s.lower()
RECURSIVE lower(_)
lower(s) ==
    IF Len(s) = 0 THEN ""
    ELSE IF Len(s) = 1 THEN LowerChar(s)
    ELSE LET half == Len(s) \div 2
         IN lower(SubSeq(s, 1, half)) \o lower(SubSeq(s, half + 1, Len(s)))

\* mutation of join: the last element is left out
RECURSIVE join_drop_last(_, _)
join_drop_last(sep, xs) ==
    IF Len(xs) <= 1 THEN ""
    ELSE IF Len(xs) = 2 THEN xs[1]
    ELSE xs[1] \o sep \o join_drop_last(sep, Tail(xs))

\* sep.join(xs)
RECURSIVE join(_, _)
join(sep, xs) ==
    IF Len(xs) = 0 THEN ""
    ELSE IF Len(xs) = 1 THEN xs[1]
    ELSE xs[1] \o sep \o join(sep, Tail(xs))

\* xs[:n]
Prefix(xs, n) == SubSeq(xs, 1, Min(n, Len(xs)))

\* s.replace(a, b) for a one-character a
RECURSIVE replace(_, _, _)
replace(s, a, b) ==
    IF Len(s) = 0 THEN ""
    ELSE IF Len(s) = 1 THEN (IF s = a THEN b ELSE s)
    ELSE LET half == Len(s) \div 2
         IN replace(SubSeq(s, 1, half), a, b) \o replace(SubSeq(s, half + 1, Len(s)), a, b)

Whitespace == " \n\t"

RECURSIVE lstrip(_)
lstrip(s) ==
    IF Len(s) > 0 /\ IsIn(SubSeq(s, 1, 1), Whitespace)
    THEN lstrip(SubSeq(s, 2, Len(s))) ELSE s

RECURSIVE rstrip(_)
rstrip(s) ==
    IF Len(s) > 0 /\ IsIn(SubSeq(s, Len(s), Len(s)), Whitespace)
    THEN rstrip(SubSeq(s, 1, Len(s) - 1)) ELSE s

\* s.strip()
strip(s) == rstrip(lstrip(s))

UpperChar(c) ==
    IF \E i \in 1..Len(LowerAlphabet) : SubSeq(LowerAlphabet, i, i) = c
    THEN LET i == CHOOSE j \in 1..Len(LowerAlphabet) : SubSeq(LowerAlphabet, j, j) = c
         IN SubSeq(UpperAlphabet, i, i)
    ELSE c

\* s.upper()
RECURSIVE upper(_)
upper(s) ==
    IF Len(s) = 0 THEN ""
    ELSE IF Len(s) = 1 THEN UpperChar(s)
    ELSE LET half == Len(s) \div 2
         IN upper(SubSeq(s, 1, half)) \o upper(SubSeq(s, half + 1, Len(s)))

IsLetter(c) == IsIn(c, UpperAlphabet) \/ IsIn(c, LowerAlphabet)

\* s.title(): a letter after a non-letter is upper-cased, every other letter
\* lower-cased
RECURSIVE title_from(_, _)
title_from(s, after_letter) ==
    IF Len(s) = 0 THEN ""
    ELSE LET c == SubSeq(s, 1, 1)
         IN (IF after_letter THEN LowerChar(c) ELSE UpperChar(c))
            \o title_from(SubSeq(s, 2, Len(s)), IsLetter(c))

\* (named Title: title is a field of the community)
Title(s) == title_from(s, FALSE)

\* s[:n] of a string
StrPrefix(s, n) == SubSeq(s, 1, Min(n, Len(s)))

DecimalDigits == "0123456789"

\* str(n) of a natural number
RECURSIVE str_of_int(_)
str_of_int(n) ==
    IF n < 10 THEN SubSeq(DecimalDigits, n + 1, n + 1)
    ELSE str_of_int(n \div 10) \o SubSeq(DecimalDigits, (n % 10) + 1, (n % 10) + 1)

\* f"{score:.1f}" of a score given in units of 1/ScoreScale: the nearest
\* tenth (a multiple of 1/3 or 1/10 is never half-way between two tenths
\* unless it is a multiple of 1/20, which rounds to the even tenth)
format_1f(units) ==
    LET twice == (units * 20) \div ScoreScale
        exact == (units * 20) % ScoreScale = 0
        floor == twice \div 2
        tenths == IF twice % 2 = 0 THEN floor
                  ELSE IF exact THEN (IF floor % 2 = 0 THEN floor ELSE floor + 1)
                  ELSE floor + 1
    IN str_of_int(tenths \div 10) \o "." \o str_of_int(tenths % 10)

\* f"{n:,}" of a natural number
RECURSIVE format_thousands(_)
format_thousands(n) ==
    IF n < 1000 THEN str_of_int(n)
    ELSE LET group == n % 1000
         IN format_thousands(n \div 1000) \o ","
            \o (IF group < 10 THEN "00" ELSE IF group < 100 THEN "0" ELSE "")
            \o str_of_int(group)

\* s * n
RECURSIVE Repeat(_, _)
Repeat(s, n) ==
    IF n = 0 THEN ""
    ELSE IF n = 1 THEN s
    ELSE Repeat(s, n \div 2) \o Repeat(s, n - (n \div 2))

\* d.get(k, default) on a dict; the empty dict is <<>>
Get(d, k, default) == IF k \in DOMAIN d THEN d[k] ELSE default

\* d after d.update(e)
Update(d, e) == [k \in DOMAIN d \cup DOMAIN e |-> IF k \in DOMAIN e THEN e[k] ELSE d[k]]

\* bool(v) of an optional string
Truthy(v) == v # None /\ v[1] # ""

(* Regular expressions of the source: a pattern is a sequence of tokens,    *)
(* each a literal string, a character class, or a character class repeated  *)
(* one or more times.  In every pattern of the source the token after a     *)
(* repeated class begins with a character outside the class, so the greedy  *)
(* match never has to back off.                                             *)
Lit(s) == [kind |-> "lit", lit |-> s, chars |-> ""]
Plus(cs) == [kind |-> "plus", lit |-> "", chars |-> cs]
Class(cs) == [kind |-> "class", lit |-> "", chars |-> cs]
Digits == Plus("0123456789")
LinkChars == Plus("abcdefghijklmnopqrstuvwxyzABCDEFGHIJKLMNOPQRSTUVWXYZ0123456789_")

\* first position at or after i whose character is not in the class
RECURSIVE ClassEnd(_, _, _)
ClassEnd(cs, t, i) ==
    IF i <= Len(t) /\ IsIn(SubSeq(t, i, i), cs) THEN ClassEnd(cs, t, i + 1) ELSE i

\* position after the match of pat starting at i, 0 when there is none
RECURSIVE MatchEnd(_, _, _)
MatchEnd(pat, t, i) ==
    IF Len(pat) = 0 THEN i
    ELSE LET tok == Head(pat) IN
         IF tok.kind = "plus"
         THEN LET e == ClassEnd(tok.chars, t, i)
              IN IF e = i THEN 0 ELSE MatchEnd(Tail(pat), t, e)
         ELSE IF tok.kind = "class"
         THEN IF i <= Len(t) /\ IsIn(SubSeq(t, i, i), tok.chars)
              THEN MatchEnd(Tail(pat), t, i + 1)
              ELSE 0
         ELSE IF i + Len(tok.lit) - 1 <= Len(t)
                 /\ SubSeq(t, i, i + Len(tok.lit) - 1) = tok.lit
              THEN MatchEnd(Tail(pat), t, i + Len(tok.lit))
              ELSE 0

RECURSIVE findall_from(_, _, _)
findall_from(pat, t, i) ==
    LET starts == {j \in i..Len(t) : MatchEnd(pat, t, j) # 0} IN
    IF starts = {} THEN <<>>
    ELSE LET first == CHOOSE j \in starts : \A k \in starts : j <= k
             e == MatchEnd(pat, t, first)
         IN <<SubSeq(t, first, e - 1)>> \o findall_from(pat, t, e)

\* re.findall(pat, t): the non-overlapping matches, left to right
re_findall(pat, t) == findall_from(pat, t, 1)

\* the concatenation of a sequence of lists
RECURSIVE Flatten(_)
Flatten(xss) == IF Len(xss) = 0 THEN <<>> ELSE Head(xss) \o Flatten(Tail(xss))

\* [label + p for p in phrases if p in text]
RECURSIVE LabelIfIn(_, _, _)
LabelIfIn(label, phrases, text) ==
    IF Len(phrases) = 0 THEN <<>>
    ELSE (IF IsIn(Head(phrases), text) THEN <<label \o Head(phrases)>> ELSE <<>>)
         \o LabelIfIn(label, Tail(phrases), text)

\* [label + m for m in matches]
Labelled(label, matches) == [k \in 1..Len(matches) |-> label \o matches[k]]

-----------------------------------------------------------------------------
(* Enumerations and lexicons *)

ScamRisk == [LOW |-> "low", MEDIUM |-> "medium", HIGH |-> "high", CRITICAL |-> "critical"]

\* TelegramScout.__init__: the lexicons a TelegramScout object carries
TelegramScout == [
    scam_indicators |-> [
        high_risk |-> <<
            "guaranteed profit", "risk-free", "100% safe", "get rich quick",
            "urgent", "limited time", "exclusive opportunity", "secret method",
            "financial freedom", "millionaire", "lamborghini", "to the moon",
            "pump", "dump", "shill", "exit scam", "rug pull" >>,
        medium_risk |-> <<
            "investment opportunity", "high returns", "passive income",
            "early investor", "presale", "private sale", "airdrop",
            "referral bonus", "pyramid", "matrix", "doubler" >>,
        suspicious_patterns |-> <<
            << Digits, Lit("x profit") >>,
            << Digits, Lit("% return") >>,
            << Lit("$"), Digits, Lit("k per") >>,
            << Lit("only "), Digits, Lit(" spots") >>,
            << Lit("invest $"), Digits, Lit(" get $"), Digits >>,
            << Digits, Lit(" btc") >>,
            << Digits, Lit(" eth") >> >> ],
    legitimacy_indicators |-> [
        positive |-> <<
            "whitepaper", "roadmap", "github", "audit", "doxxed team",
            "partnership", "testnet", "mainnet", "smart contract",
            "open source", "decentralized", "community driven",
            "development update", "milestone", "alpha", "beta" >>,
        team_indicators |-> <<
            "founder", "ceo", "cto", "developer", "advisor",
            "team member", "linkedin", "experience", "background" >>,
        tech_indicators |-> <<
            "consensus", "validator", "node", "blockchain", "protocol",
            "algorithm", "cryptography", "security", "scalability" >> ] ]

\* the class [rocket, money bag, gem, fire, lightning] of the hype heuristic;
\* the module is ASCII, the caret stands for any of the five emojis
HypeEmojis == Class("^")

-----------------------------------------------------------------------------
(* class ProjectAnalyzer *)

\* ProjectAnalyzer.__init__: the attributes the constructor sets
ProjectAnalyzer_init(openai_api_key) ==
    [openai_api_key |-> openai_api_key, sentiment_analyzer |-> None]

\* EnhancedTelegramBot.__init__: self.project_analyzer
project_analyzer == ProjectAnalyzer_init(None)

\* body of detect_scam_indicators, with self.scout resolved to scout
scam_indicators_of(scout, text) ==
    LET text_lower == lower(text)
        lex == scout.scam_indicators
        high == LabelIfIn("HIGH RISK: ", lex.high_risk, text_lower)
        medium == LabelIfIn("MEDIUM RISK: ", lex.medium_risk, text_lower)
        patterns == Flatten([k \in 1..Len(lex.suspicious_patterns) |->
                        Labelled("SUSPICIOUS PATTERN: ",
                                 re_findall(lex.suspicious_patterns[k], text_lower))])
        hype == IF Len(re_findall(<<HypeEmojis>>, text)) > 10
                THEN <<"EXCESSIVE HYPE EMOJIS">> ELSE <<>>
        links == IF (IsIn("telegram.me", text_lower) \/ IsIn("t.me", text_lower))
                    /\ Len(re_findall(<<Lit("t.me/"), LinkChars>>, text_lower)) > 3
                 THEN <<"MULTIPLE SUSPICIOUS LINKS">> ELSE <<>>
    IN high \o medium \o patterns \o hype \o links

\* body of detect_positive_indicators, with self.scout resolved to scout
positive_indicators_of(scout, text) ==
    LET text_lower == lower(text)
        lex == scout.legitimacy_indicators
        positive == LabelIfIn("POSITIVE: ", lex.positive, text_lower)
        team == LabelIfIn("TEAM: ", lex.team_indicators, text_lower)
        tech == LabelIfIn("TECHNICAL: ", lex.tech_indicators, text_lower)
        github == IF IsIn("github.com", text_lower)
                  THEN <<"GITHUB REPOSITORY">> ELSE <<>>
        audit == IF \E word \in {"audit", "certik", "peckshield"} : IsIn(word, text_lower)
                 THEN <<"SECURITY AUDIT">> ELSE <<>>
        docs == IF IsIn("whitepaper", text_lower) \/ IsIn("lite paper", text_lower)
                THEN <<"DOCUMENTATION">> ELSE <<>>
    IN positive \o team \o tech \o github \o audit \o docs

\* self.scout is read before anything else; an object without that
\* attribute raises AttributeError
detect_scam_indicators(self, text) ==
    IF "scout" \notin DOMAIN self THEN Raise("AttributeError")
    ELSE Return(scam_indicators_of(self.scout, text))

detect_positive_indicators(self, text) ==
    IF "scout" \notin DOMAIN self THEN Raise("AttributeError")
    ELSE Return(positive_indicators_of(self.scout, text))

\* mutation of CountLabel: the label filter is dropped
CountLabel_unfiltered(label, indicators) == Len(indicators)

\* len([i for i in indicators if label in i])
CountLabel(label, indicators) ==
    Cardinality({k \in 1..Len(indicators) : IsIn(label, indicators[k])})

\* base_score of calculate_legitimacy_score just before its return statement
base_score_of(scam, positive, info) ==
    LET base_score == 50 * ScoreScale
        high_risk_count == CountLabel("HIGH RISK", scam)
        medium_risk_count == CountLabel("MEDIUM RISK", scam)
        suspicious_patterns == CountLabel("SUSPICIOUS PATTERN", scam)
        s1 == base_score - (high_risk_count * 20 * ScoreScale)
                         - (medium_risk_count * 10 * ScoreScale)
                         - (suspicious_patterns * 5 * ScoreScale)
        positive_count == CountLabel("POSITIVE", positive)
        team_count == CountLabel("TEAM", positive)
        tech_count == CountLabel("TECHNICAL", positive)
        s2 == s1 + (positive_count * 8 * ScoreScale)
                 + (team_count * 12 * ScoreScale)
                 + (tech_count * 10 * ScoreScale)
        s3 == IF info.admin_count > 1 THEN s2 + 5 * ScoreScale ELSE s2
        s4 == IF info.verified THEN s3 + 15 * ScoreScale ELSE s3
        s5 == IF info.restricted THEN s4 - 10 * ScoreScale ELSE s4
    IN IF info.creation_date # None
       THEN LET days_old == info.creation_date[1]
            IN IF days_old > 30
               THEN s5 + Min(10 * ScoreScale, (days_old * ScoreScale) \div 10)
               ELSE s5
       ELSE s5

\* mutation of calculate_legitimacy_score: the final clamp is dropped
calculate_legitimacy_score_unclamped(scam, positive, info) ==
    base_score_of(scam, positive, info)

calculate_legitimacy_score(scam, positive, info) ==
    Max(0, Min(100 * ScoreScale, base_score_of(scam, positive, info)))

\* mutation of determine_risk_level: the comparisons are <= instead of <
determine_risk_level_inclusive(score, scam) ==
    LET high_risk_count == CountLabel("HIGH RISK", scam) IN
    IF high_risk_count > 0 \/ score <= 20 * ScoreScale THEN ScamRisk.CRITICAL
    ELSE IF score <= 40 * ScoreScale THEN ScamRisk.HIGH
    ELSE IF score <= 60 * ScoreScale THEN ScamRisk.MEDIUM
    ELSE ScamRisk.LOW

\* mutation of determine_risk_level: the thresholds of the research path
determine_risk_level_research_thresholds(score, scam) ==
    LET high_risk_count == CountLabel("HIGH RISK", scam) IN
    IF high_risk_count > 0 \/ score <= 30 * ScoreScale THEN ScamRisk.CRITICAL
    ELSE IF score <= 50 * ScoreScale THEN ScamRisk.HIGH
    ELSE IF score <= 70 * ScoreScale THEN ScamRisk.MEDIUM
    ELSE ScamRisk.LOW

determine_risk_level(score, scam) ==
    LET high_risk_count == CountLabel("HIGH RISK", scam) IN
    IF high_risk_count > 0 \/ score < 20 * ScoreScale THEN ScamRisk.CRITICAL
    ELSE IF score < 40 * ScoreScale THEN ScamRisk.HIGH
    ELSE IF score < 60 * ScoreScale THEN ScamRisk.MEDIUM
    ELSE ScamRisk.LOW

\* f"{title} {description} " + " ".join(recent_messages[:10])
all_text_of(info) ==
    info.title \o " " \o info.description \o " "
        \o join(" ", Prefix(info.recent_messages, 10))

analyze_project(self, info) ==
    LET all_text == all_text_of(info)
        scam == detect_scam_indicators(self, all_text)
    IN IF scam.raised THEN scam
       ELSE LET positive == detect_positive_indicators(self, all_text) IN
            IF positive.raised THEN positive
            ELSE LET score == calculate_legitimacy_score(scam.value[1], positive.value[1], info)
                 IN Return([legitimacy_score |-> score,
                            scam_indicators |-> scam.value[1],
                            positive_indicators |-> positive.value[1],
                            risk_level |-> determine_risk_level(score, scam.value[1])])

-----------------------------------------------------------------------------
(* class ProjectResearcher *)

JobCategory == [
    COMMUNITY_MANAGEMENT |-> "community_management",
    MODERATION |-> "moderation",
    GRAPHICS_DESIGN |-> "graphics_design",
    SOCIAL_MEDIA |-> "social_media",
    PR_MARKETING |-> "pr_marketing",
    BUSINESS_DEVELOPMENT |-> "business_development",
    TECHNICAL_WRITING |-> "technical_writing",
    DEVELOPMENT |-> "development",
    LEGAL_COMPLIANCE |-> "legal_compliance",
    PARTNERSHIPS |-> "partnerships",
    CONTENT_CREATION |-> "content_creation",
    INFLUENCER_OUTREACH |-> "influencer_outreach" ]

\* ProjectResearcher.__init__: self.pitch_strategies, keyed by category
pitch_strategies == [c \in {JobCategory.COMMUNITY_MANAGEMENT, JobCategory.MODERATION,
                            JobCategory.GRAPHICS_DESIGN, JobCategory.SOCIAL_MEDIA,
                            JobCategory.PR_MARKETING, JobCategory.BUSINESS_DEVELOPMENT} |->
    CASE c = JobCategory.COMMUNITY_MANAGEMENT -> [
            strategy |-> "Focus on engagement metrics and community building experience",
            approach |-> "Show examples of communities you've grown and engagement strategies",
            key_points |-> <<"Community growth track record", "Engagement strategies",
                             "Crisis management", "Event organization">> ]
      [] c = JobCategory.MODERATION -> [
            strategy |-> "Emphasize reliability, availability, and conflict resolution skills",
            approach |-> "Highlight your availability across time zones and moderation tools experience",
            key_points |-> <<"24/7 availability", "Moderation tools expertise",
                             "Conflict resolution", "Rule enforcement">> ]
      [] c = JobCategory.GRAPHICS_DESIGN -> [
            strategy |-> "Lead with a strong portfolio showcasing crypto/web3 design experience",
            approach |-> "Create sample designs specifically for their project before pitching",
            key_points |-> <<"Crypto design portfolio", "Brand consistency",
                             "Quick turnaround", "Multiple format delivery">> ]
      [] c = JobCategory.SOCIAL_MEDIA -> [
            strategy |-> "Present a content strategy with growth projections and engagement tactics",
            approach |-> "Analyze their current social media and propose specific improvements",
            key_points |-> <<"Content strategy", "Growth tactics",
                             "Platform expertise", "Analytics tracking">> ]
      [] c = JobCategory.PR_MARKETING -> [
            strategy |-> "Demonstrate media connections and successful campaign examples",
            approach |-> "Propose specific PR opportunities and media outreach strategy",
            key_points |-> <<"Media relationships", "Campaign success stories",
                             "Industry knowledge", "Crisis communication">> ]
      [] c = JobCategory.BUSINESS_DEVELOPMENT -> [
            strategy |-> "Showcase network connections and partnership facilitation experience",
            approach |-> "Identify potential partnerships and present strategic opportunities",
            key_points |-> <<"Network connections", "Deal-making experience",
                             "Market insights", "Strategic thinking">> ] ]

\* init_session: a session is created only when none exists
init_session(sess) == IF sess = "none" THEN "open" ELSE sess

\* close_session: the session is closed, the attribute keeps the closed object
close_session(sess) == IF sess # "none" THEN "closed" ELSE sess

(* fetch_coingecko_data.  The two HTTP exchanges are given by a response    *)
(* record: raises (the request fails), search_status, coins (the search    *)
(* found a coin), detail_status and detail, the fields the method reads    *)
(* from the detail document.  A request on a session that is not open      *)
(* raises; every exception is caught and yields None.                      *)
\* mutation of fetch_coingecko_data: the status of the detail request is
\* not checked
fetch_coingecko_data_any_detail(sess, response) ==
    IF sess # "open" \/ response.raises THEN None
    ELSE IF response.search_status # 200 THEN None
    ELSE IF ~response.coins THEN None
    ELSE Some([
        name |-> response.detail.name,
        description |-> response.detail.description,
        website |-> response.detail.website,
        social_links |-> [
            twitter |-> response.detail.twitter,
            telegram |-> response.detail.telegram,
            discord |-> None,
            github |-> response.detail.github ],
        market_data |-> [
            market_cap |-> response.detail.market_cap,
            volume |-> response.detail.volume,
            price |-> response.detail.price ] ])

fetch_coingecko_data(sess, response) ==
    IF sess # "open" \/ response.raises THEN None
    ELSE IF response.search_status # 200 THEN None
    ELSE IF ~response.coins THEN None
    ELSE IF response.detail_status # 200 THEN None
    ELSE Some([
        name |-> response.detail.name,
        description |-> response.detail.description,
        website |-> response.detail.website,
        social_links |-> [
            twitter |-> response.detail.twitter,
            telegram |-> response.detail.telegram,
            discord |-> None,
            github |-> response.detail.github ],
        market_data |-> [
            market_cap |-> response.detail.market_cap,
            volume |-> response.detail.volume,
            price |-> response.detail.price ] ])

search_project_web_presence(project_identifier) ==
    [additional_info |-> "", found_links |-> <<>>]

gather_basic_project_info(sess, project_identifier, response) ==
    LET project_info == [name |-> Some(project_identifier), description |-> "",
                         website |-> "", social_links |-> <<>>, sources |-> <<>>]
        coingecko_data == fetch_coingecko_data(sess, response)
        info1 == IF coingecko_data # None
                 THEN [Update(project_info, coingecko_data[1])
                          EXCEPT !.sources = Append(@, "CoinGecko")]
                 ELSE project_info
        web_search_data == search_project_web_presence(project_identifier)
        info2 == IF DOMAIN web_search_data # {}
                 THEN [Update(info1, web_search_data)
                          EXCEPT !.sources = Append(@, "Web Search")]
                 ELSE info1
    IN info2

\* mutation of analyze_twitter_account: the account has followers
analyze_twitter_account_followed(twitter_handle) ==
    [present |-> TRUE, followers |-> 20000, engagement |-> "unknown",
     activity |-> "unknown", content_quality |-> "unknown"]

analyze_twitter_account(twitter_handle) ==
    [present |-> TRUE, followers |-> 0, engagement |-> "unknown",
     activity |-> "unknown", content_quality |-> "unknown"]

analyze_telegram_channel(telegram_identifier) ==
    [present |-> TRUE, members |-> 0, activity |-> "unknown",
     moderation_quality |-> "unknown"]

calculate_social_media_score(social) ==
    LET twitter == IF social.twitter.present
                   THEN 30 + (IF social.twitter.followers > 10000 THEN 20
                              ELSE IF social.twitter.followers > 1000 THEN 10
                              ELSE 0)
                   ELSE 0
        telegram == IF social.telegram.present
                    THEN 25 + (IF social.telegram.members > 5000 THEN 15
                               ELSE IF social.telegram.members > 1000 THEN 8
                               ELSE 0)
                    ELSE 0
        discord == IF social.discord.present THEN 25 ELSE 0
        missing_platforms == Len(social.missing_platforms)
        score == twitter + telegram + discord - (missing_platforms * 15)
    IN Max(0, Min(100, score))

generate_social_media_recommendations(social) ==
    LET missing == {social.missing_platforms[k] :
                        k \in 1..Len(social.missing_platforms)}
    IN (IF "twitter" \in missing
        THEN <<"Establish Twitter presence for announcements and community engagement">>
        ELSE <<>>)
       \o (IF "telegram" \in missing
           THEN <<"Create Telegram community for real-time discussions">> ELSE <<>>)
       \o (IF "discord" \in missing
           THEN <<"Set up Discord server for community building and support">> ELSE <<>>)
       \o (IF social.overall_score < 50
           THEN <<"Increase social media activity and engagement">> ELSE <<>>)

analyze_social_presence(project_identifier, info) ==
    LET social_links == Get(info, "social_links", <<>>)
        a0 == [twitter |-> [present |-> FALSE, followers |-> 0,
                            engagement |-> "unknown", activity |-> "unknown"],
               telegram |-> [present |-> FALSE, members |-> 0, activity |-> "unknown"],
               discord |-> [present |-> FALSE, members |-> 0, activity |-> "unknown"],
               overall_score |-> 0,
               missing_platforms |-> <<>>,
               recommendations |-> <<>>]
        a1 == IF Truthy(Get(social_links, "twitter", None))
              THEN [a0 EXCEPT !.twitter = analyze_twitter_account(social_links.twitter[1])]
              ELSE [a0 EXCEPT !.missing_platforms = Append(@, "twitter")]
        a2 == IF Truthy(Get(social_links, "telegram", None))
              THEN [a1 EXCEPT !.telegram = analyze_telegram_channel(social_links.telegram[1])]
              ELSE [a1 EXCEPT !.missing_platforms = Append(@, "telegram")]
        a3 == [a2 EXCEPT !.overall_score = calculate_social_media_score(a2)]
    IN [a3 EXCEPT !.recommendations = generate_social_media_recommendations(a3)]

analyze_github_presence(github_repos) ==
    [present |-> Len(github_repos) > 0, repo_count |-> Len(github_repos),
     activity |-> "unknown", code_quality |-> "unknown", last_update |-> "unknown"]

check_whitepaper_presence(website) ==
    [present |-> FALSE, quality |-> "unknown", technical_depth |-> "unknown",
     readability |-> "unknown"]

calculate_technical_score(technical) ==
    LET score == (IF technical.github.present THEN 40 ELSE 0)
                 + (IF technical.whitepaper.present THEN 30 ELSE 0)
                 + (IF technical.smart_contracts.deployed THEN 20 ELSE 0)
                 + (IF technical.smart_contracts.audited THEN 10 ELSE 0)
                 - (Len(technical.missing_elements) * 20)
    IN Max(0, Min(100, score))

generate_technical_recommendations(technical) ==
    LET missing == {technical.missing_elements[k] :
                        k \in 1..Len(technical.missing_elements)}
    IN (IF "github_repository" \in missing
        THEN <<"Create public GitHub repository to showcase development progress">>
        ELSE <<>>)
       \o (IF "whitepaper" \in missing
           THEN <<"Publish detailed whitepaper explaining technology and tokenomics">>
           ELSE <<>>)
       \o (IF ~technical.smart_contracts.audited
           THEN <<"Get smart contracts professionally audited for security">>
           ELSE <<>>)

analyze_technical_aspects(project_identifier, info) ==
    LET a0 == [whitepaper |-> [present |-> FALSE, quality |-> "unknown",
                               technical_depth |-> "unknown"],
               github |-> [present |-> FALSE, activity |-> "unknown",
                           code_quality |-> "unknown"],
               smart_contracts |-> [deployed |-> FALSE, audited |-> FALSE,
                                    verified |-> FALSE],
               documentation |-> [present |-> FALSE, quality |-> "unknown"],
               technical_score |-> 0,
               missing_elements |-> <<>>,
               recommendations |-> <<>>]
        github_repos == Get(Get(info, "social_links", <<>>), "github", <<>>)
        a1 == IF Len(github_repos) > 0
              THEN [a0 EXCEPT !.github = analyze_github_presence(github_repos)]
              ELSE [a0 EXCEPT !.missing_elements = Append(@, "github_repository")]
        website == Get(info, "website", "")
        a2 == IF website # ""
              THEN [a1 EXCEPT !.whitepaper = check_whitepaper_presence(website)]
              ELSE [a1 EXCEPT !.missing_elements = Append(@, "whitepaper")]
        a3 == [a2 EXCEPT !.technical_score = calculate_technical_score(a2)]
    IN [a3 EXCEPT !.recommendations = generate_technical_recommendations(a3)]

\* mutation of calculate_team_score: the weights of 'high' and 'medium' swapped
calculate_team_score_swapped(team) ==
    LET transparency == team.transparency
        score == (IF transparency = "high" THEN 30
                  ELSE IF transparency = "medium" THEN 50
                  ELSE IF transparency = "low" THEN 10
                  ELSE 0)
                 + team.linkedin_profiles * 10
                 + team.public_backgrounds * 5
    IN Min(100, score)

calculate_team_score(team) ==
    LET transparency == team.transparency
        score == (IF transparency = "high" THEN 50
                  ELSE IF transparency = "medium" THEN 30
                  ELSE IF transparency = "low" THEN 10
                  ELSE 0)
                 + team.linkedin_profiles * 10
                 + team.public_backgrounds * 5
    IN Min(100, score)

generate_team_recommendations(team) ==
    (IF team.transparency = "anonymous"
     THEN <<"Consider revealing team members to build trust and credibility">>
     ELSE IF team.transparency = "low"
     THEN <<"Provide more detailed team information and backgrounds">>
     ELSE <<>>)
    \o (IF team.linkedin_profiles = 0
        THEN <<"Create professional LinkedIn profiles for team members">>
        ELSE <<>>)

analyze_team(project_identifier, info) ==
    LET a0 == [transparency |-> "unknown", team_size |-> "unknown",
               experience |-> "unknown", linkedin_profiles |-> 0,
               public_backgrounds |-> 0, team_score |-> 0,
               missing_elements |-> <<>>, recommendations |-> <<>>]
        description == Get(info, "description", "")
        team_keywords == <<"team", "founder", "ceo", "developer", "advisor">>
        team_mentions == Cardinality({k \in 1..Len(team_keywords) :
                                         IsIn(team_keywords[k], lower(description))})
        a1 == IF team_mentions = 0
              THEN [a0 EXCEPT !.missing_elements = Append(@, "team_information"),
                              !.transparency = "anonymous"]
              ELSE IF team_mentions < 3
              THEN [a0 EXCEPT !.transparency = "low"]
              ELSE [a0 EXCEPT !.transparency = "medium"]
        a2 == [a1 EXCEPT !.team_score = calculate_team_score(a1)]
    IN [a2 EXCEPT !.recommendations = generate_team_recommendations(a2)]

calculate_community_score(community) == 50

generate_community_recommendations(community) ==
    <<"Increase community engagement through regular events and updates">>

analyze_community_health(project_identifier, info) ==
    LET a0 == [size |-> "unknown", engagement_rate |-> "unknown",
               growth_trend |-> "unknown", community_sentiment |-> "neutral",
               moderation_quality |-> "unknown", community_score |-> 0,
               issues |-> <<>>, recommendations |-> <<>>]
        a1 == [a0 EXCEPT !.community_score = calculate_community_score(a0)]
    IN [a1 EXCEPT !.recommendations = generate_community_recommendations(a1)]

calculate_tokenomics_score(tokenomics) ==
    LET score == 50 + Len(tokenomics.positive_aspects) * 15
                    - Len(tokenomics.red_flags) * 25
    IN Max(0, Min(100, score))

generate_tokenomics_recommendations(tokenomics) ==
    (IF ~tokenomics.burn_mechanism
     THEN <<"Consider implementing token burn mechanism for deflationary pressure">>
     ELSE <<>>)
    \o (IF ~tokenomics.staking
        THEN <<"Add staking utility to encourage long-term holding">> ELSE <<>>)
    \o (IF ~tokenomics.governance
        THEN <<"Implement governance functionality for community participation">>
        ELSE <<>>)

analyze_tokenomics_deep(project_identifier, info) ==
    LET a0 == [token_supply |-> "unknown", distribution |-> "unknown",
               utility |-> "unknown", inflation_mechanism |-> "unknown",
               burn_mechanism |-> FALSE, staking |-> FALSE, governance |-> FALSE,
               tokenomics_score |-> 0, red_flags |-> <<>>,
               positive_aspects |-> <<>>, recommendations |-> <<>>]
        description == lower(Get(info, "description", ""))
        a1 == IF IsIn("unlimited supply", description)
              THEN [a0 EXCEPT !.red_flags = Append(@, "unlimited_supply")] ELSE a0
        a2 == IF IsIn("burn", description)
              THEN [a1 EXCEPT !.burn_mechanism = TRUE,
                              !.positive_aspects = Append(@, "burn_mechanism")]
              ELSE a1
        a3 == IF IsIn("staking", description)
              THEN [a2 EXCEPT !.staking = TRUE,
                              !.positive_aspects = Append(@, "staking_utility")]
              ELSE a2
        a4 == IF IsIn("governance", description)
              THEN [a3 EXCEPT !.governance = TRUE,
                              !.positive_aspects = Append(@, "governance_utility")]
              ELSE a3
        a5 == [a4 EXCEPT !.tokenomics_score = calculate_tokenomics_score(a4)]
    IN [a5 EXCEPT !.recommendations = generate_tokenomics_recommendations(a5)]

\* the literal text of the f-string in format_pitch_strategy; the bullet
\* character of the source is written "*"
format_pitch_strategy(strategy_dict, category) ==
    IF DOMAIN strategy_dict = {}
    THEN "Research the project thoroughly and propose specific improvements in your area of expertise."
    ELSE LET strategy == Get(strategy_dict, "strategy", "")
             approach == Get(strategy_dict, "approach", "")
             key_points == Get(strategy_dict, "key_points", <<>>)
             bullets == [k \in 1..Len(key_points) |-> "* " \o key_points[k]]
             formatted_strategy ==
                 "\n**Pitch Strategy:** " \o strategy
                 \o "\n\n**Approach:** " \o approach
                 \o "\n\n**Key Points to Highlight:**\n" \o join("\n", bullets)
                 \o "\n\n**Pitch Template:**\n"
                 \o "\"Hi [Project Name] team! I've been following your project and see great potential. I noticed you could benefit from "
                 \o replace(category, "_", " ")
                 \o " support. Here's how I can help:\n\n"
                 \o "[Specific examples of what you can deliver]\n"
                 \o "[Your relevant experience/portfolio]\n"
                 \o "[Proposed timeline and deliverables]\n\n"
                 \o "I'd love to discuss how we can grow [Project Name] together. When would be a good time for a brief call?\"\n        "
         IN strip(formatted_strategy)

\* mutation of create_job_opportunity: the category of another call site
create_job_opportunity_copied_category(category, urgency, description, requirements, pitch_strategy, estimated_budget, time_commitment) ==
    [category |-> JobCategory.COMMUNITY_MANAGEMENT,
     urgency |-> urgency,
     description |-> description,
     requirements |-> requirements,
     pitch_strategy |-> format_pitch_strategy(pitch_strategy, category),
     estimated_budget |-> estimated_budget,
     time_commitment |-> time_commitment]

\* mutation of create_job_opportunity: every opportunity is urgent
create_job_opportunity_always_high(category, urgency, description, requirements, pitch_strategy, estimated_budget, time_commitment) ==
    [category |-> category,
     urgency |-> "high",
     description |-> description,
     requirements |-> requirements,
     pitch_strategy |-> format_pitch_strategy(pitch_strategy, category),
     estimated_budget |-> estimated_budget,
     time_commitment |-> time_commitment]

create_job_opportunity(category, urgency, description, requirements, pitch_strategy, estimated_budget, time_commitment) ==
    [category |-> category,
     urgency |-> urgency,
     description |-> description,
     requirements |-> requirements,
     pitch_strategy |-> format_pitch_strategy(pitch_strategy, category),
     estimated_budget |-> estimated_budget,
     time_commitment |-> time_commitment]

\* mutation of has_professional_branding: a project with a description
\* counts as branded
has_professional_branding_by_description(info, social) ==
    Get(info, "description", "") # ""

has_professional_branding(info, social) == FALSE

\* mutation of InList: only the first element is looked at
InList_first_only(x, xs) == Len(xs) > 0 /\ xs[1] = x

\* x in xs for a list xs
InList(x, xs) == \E k \in 1..Len(xs) : xs[k] = x

\* mutation of overall_maturity_of: the thresholds are inclusive
overall_maturity_of_inclusive(avg_score) ==
    IF avg_score <= 40 * ScoreScale THEN "early"
    ELSE IF avg_score <= 70 * ScoreScale THEN "developing"
    ELSE "mature"

\* identify_project_needs: the bucket of avg_score
overall_maturity_of(avg_score) ==
    IF avg_score < 40 * ScoreScale THEN "early"
    ELSE IF avg_score < 70 * ScoreScale THEN "developing"
    ELSE "mature"

(* identify_project_needs.  market_cap is an optional number: the value   *)
(* None stored by fetch_coingecko_data is not comparable with an int, and  *)
(* the comparison at the business development check raises TypeError.      *)
identify_project_needs(info, social, technical, team, community) ==
    LET social_low == social.overall_score < 70
        social_jobs ==
            IF social_low
            THEN (IF InList("twitter", social.missing_platforms)
                  THEN <<create_job_opportunity(
                            JobCategory.SOCIAL_MEDIA, "high",
                            "Twitter account management and content strategy needed",
                            <<"Social media experience", "Crypto knowledge", "Content creation">>,
                            pitch_strategies[JobCategory.SOCIAL_MEDIA],
                            "$500-2000/month", "Part-time (10-20 hrs/week)")>>
                  ELSE <<>>)
                 \o (IF Get(social.telegram, "members", 0) < 1000
                     THEN <<create_job_opportunity(
                               JobCategory.COMMUNITY_MANAGEMENT, "high",
                               "Telegram community growth and management needed",
                               <<"Community building experience", "24/7 availability",
                                 "Crypto enthusiasm">>,
                               pitch_strategies[JobCategory.COMMUNITY_MANAGEMENT],
                               "$800-3000/month", "Full-time")>>
                     ELSE <<>>)
            ELSE <<>>
        technical_low == technical.technical_score < 60
        technical_jobs ==
            IF technical_low
            THEN (IF InList("whitepaper", technical.missing_elements)
                  THEN <<create_job_opportunity(
                            JobCategory.TECHNICAL_WRITING, "high",
                            "Technical writer needed for whitepaper and documentation",
                            <<"Technical writing experience", "Blockchain knowledge",
                              "Research skills">>,
                            Get(pitch_strategies, JobCategory.TECHNICAL_WRITING, <<>>),
                            "$2000-8000 (one-time)", "Project-based")>>
                  ELSE <<>>)
                 \o (IF InList("github_repository", technical.missing_elements)
                     THEN <<create_job_opportunity(
                               JobCategory.DEVELOPMENT, "medium",
                               "Blockchain developer needed for smart contract development",
                               <<"Solidity experience", "Smart contract development",
                                 "Security knowledge">>,
                               Get(pitch_strategies, JobCategory.DEVELOPMENT, <<>>),
                               "$3000-10000/month", "Full-time")>>
                     ELSE <<>>)
            ELSE <<>>
        team_low == team.team_score < 50
        team_jobs ==
            IF team_low
            THEN <<create_job_opportunity(
                      JobCategory.PR_MARKETING, "medium",
                      "PR specialist needed to build team credibility and media presence",
                      <<"PR experience", "Media relationships", "Crisis communication">>,
                      pitch_strategies[JobCategory.PR_MARKETING],
                      "$1500-5000/month", "Part-time")>>
            ELSE <<>>
        no_branding == ~has_professional_branding(info, social)
        branding_jobs ==
            IF no_branding
            THEN <<create_job_opportunity(
                      JobCategory.GRAPHICS_DESIGN, "medium",
                      "Graphics designer needed for branding and visual content",
                      <<"Graphic design portfolio", "Crypto/Web3 experience",
                        "Brand development">>,
                      pitch_strategies[JobCategory.GRAPHICS_DESIGN],
                      "$1000-4000/month", "Part-time")>>
            ELSE <<>>
        market_cap == Get(Get(info, "market_data", <<>>), "market_cap", Some(0))
        small_cap == market_cap[1] < 10000000
        business_jobs ==
            IF small_cap
            THEN <<create_job_opportunity(
                      JobCategory.BUSINESS_DEVELOPMENT, "medium",
                      "Business development specialist for partnerships and growth",
                      <<"BD experience", "Crypto industry network", "Deal-making skills">>,
                      pitch_strategies[JobCategory.BUSINESS_DEVELOPMENT],
                      "$2000-8000/month", "Part-time to Full-time")>>
            ELSE <<>>
        missing_elements ==
            (IF social_low THEN <<"strong_social_media_presence">> ELSE <<>>)
            \o (IF technical_low THEN <<"strong_technical_foundation">> ELSE <<>>)
            \o (IF team_low THEN <<"team_transparency">> ELSE <<>>)
            \o (IF no_branding THEN <<"professional_branding">> ELSE <<>>)
            \o (IF small_cap THEN <<"strategic_partnerships">> ELSE <<>>)
        improvement_areas ==
            (IF social_low THEN <<"social_media_strategy">> ELSE <<>>)
            \o (IF technical_low THEN <<"technical_documentation">> ELSE <<>>)
            \o (IF team_low THEN <<"team_credibility">> ELSE <<>>)
            \o (IF no_branding THEN <<"visual_identity">> ELSE <<>>)
            \o (IF small_cap THEN <<"business_development">> ELSE <<>>)
        strengths ==
            (IF social.overall_score > 70
             THEN <<"strong_social_media_presence">> ELSE <<>>)
            \o (IF technical.technical_score > 70
                THEN <<"solid_technical_foundation">> ELSE <<>>)
            \o (IF team.team_score > 70 THEN <<"transparent_team">> ELSE <<>>)
        avg_score == ((social.overall_score + technical.technical_score
                       + team.team_score) * ScoreScale) \div 3
        overall_maturity == overall_maturity_of(avg_score)
    IN IF market_cap = None THEN Raise("TypeError")
       ELSE Return([missing_elements |-> missing_elements,
                    strengths |-> strengths,
                    improvement_areas |-> improvement_areas,
                    job_opportunities |-> social_jobs \o technical_jobs \o team_jobs
                                          \o branding_jobs \o business_jobs,
                    overall_maturity |-> overall_maturity])

\* mutation of legitimacy_risk_level: the thresholds 50, 30 and 10
legitimacy_risk_level_lower_thresholds(score) ==
    IF score > 50 * ScoreScale THEN ScamRisk.LOW
    ELSE IF score > 30 * ScoreScale THEN ScamRisk.MEDIUM
    ELSE IF score > 10 * ScoreScale THEN ScamRisk.HIGH
    ELSE ScamRisk.CRITICAL

\* the risk level create_legitimacy_analysis determines for a score
legitimacy_risk_level(score) ==
    IF score > 70 * ScoreScale THEN ScamRisk.LOW
    ELSE IF score > 50 * ScoreScale THEN ScamRisk.MEDIUM
    ELSE IF score > 30 * ScoreScale THEN ScamRisk.HIGH
    ELSE ScamRisk.CRITICAL

create_legitimacy_analysis(info, social, technical, team) ==
    LET scam == (IF team.transparency = "anonymous"
                 THEN <<"MEDIUM RISK: Anonymous team">> ELSE <<>>)
                \o (IF technical.technical_score < 30
                    THEN <<"HIGH RISK: Poor technical foundation">> ELSE <<>>)
                \o (IF social.overall_score < 20
                    THEN <<"MEDIUM RISK: Minimal social media presence">> ELSE <<>>)
        positive == (IF team.transparency # "anonymous"
                     THEN <<"POSITIVE: Team information available">> ELSE <<>>)
                    \o (IF technical.technical_score >= 30
                           /\ technical.technical_score > 70
                        THEN <<"POSITIVE: Strong technical foundation">> ELSE <<>>)
                    \o (IF social.overall_score >= 20
                           /\ social.overall_score > 60
                        THEN <<"POSITIVE: Good social media presence">> ELSE <<>>)
        score == ((social.overall_score + technical.technical_score
                   + team.team_score) * ScoreScale) \div 3
        risk == legitimacy_risk_level(score)
    IN [legitimacy_score |-> score,
        scam_indicators |-> scam,
        positive_indicators |-> positive,
        risk_level |-> risk,
        tokenomics_analysis |-> Some("See detailed tokenomics analysis"),
        roadmap_quality |-> Some("See technical analysis"),
        team_analysis |-> Some("See team analysis"),
        sentiment_score |-> 0]

\* the ComprehensiveProjectAnalysis research_project_comprehensive returns;
\* research_timestamp is datetime.now(), given by a serial number
ComprehensiveProjectAnalysis(identifier, info, social, technical, team, community, tokenomics, needs, legitimacy) ==
    [project_name |-> Get(info, "name", Some(identifier)),
     project_description |-> Get(info, "description", "No description available"),
     legitimacy_analysis |-> legitimacy,
     social_presence |-> social,
     technical_analysis |-> technical,
     team_analysis |-> team,
     community_health |-> community,
     tokenomics_deep_dive |-> tokenomics,
     project_needs |-> needs,
     research_timestamp |-> 1,
     sources_analyzed |-> Get(info, "sources", <<>>)]

\* research_project_comprehensive as one function of the session it finds
\* and of the answers of the market-data API
research_project_comprehensive(sess, identifier, response) ==
    LET info == gather_basic_project_info(init_session(sess), identifier, response)
        social == analyze_social_presence(identifier, info)
        technical == analyze_technical_aspects(identifier, info)
        team == analyze_team(identifier, info)
        community == analyze_community_health(identifier, info)
        tokenomics == analyze_tokenomics_deep(identifier, info)
        needs == identify_project_needs(info, social, technical, team, community)
    IN IF needs.raised THEN needs
       ELSE Return(ComprehensiveProjectAnalysis(
                identifier, info, social, technical, team, community, tokenomics,
                needs.value[1],
                create_legitimacy_analysis(info, social, technical, team)))

-----------------------------------------------------------------------------
(* The scoring engine applied to one community *)

Titles == {"", "PUMP Token"}

Descriptions == {
    "",
    "presale airdrop private sale 5x profit",
    "roadmap and whitepaper by founder and ceo on github.com, audit done" }

Messages == {
    "gm 10 eth 2 btc",
    "^^^^^^^^^^^ t.me/a t.me/b t.me/c t.me/d",
    "guaranteed profit risk-free get rich quick",
    "mainnet validator node" }

\* community_info.creation_date: None, or a datetime given by its age in days
CreationDates == {None, Some(30), Some(31), Some(250)}

MessageLists == UNION {[1..n -> Messages] : n \in 0..MaxMessages}

CommunityInfos ==
    [title : Titles, description : Descriptions, recent_messages : MessageLists,
     admin_count : 0..MaxAdminCount, creation_date : CreationDates,
     verified : BOOLEAN, restricted : BOOLEAN]

\* score_pc is "start" when the scoring functions are to be applied one by
\* one, "call" when the bot is to call analyze_project
CommunityStart ==
    /\ community_info \in CommunityInfos
    /\ score_pc \in {"start", "call"}
    /\ scam_indicators = <<>>
    /\ positive_indicators = <<>>
    /\ legitimacy_score = None
    /\ risk_level = "unset"
    /\ analysis_result = NotCalled

CommunityIdle ==
    /\ community_info = None
    /\ score_pc = "idle"
    /\ scam_indicators = <<>>
    /\ positive_indicators = <<>>
    /\ legitimacy_score = None
    /\ risk_level = "unset"
    /\ analysis_result = NotCalled

\* the texts of the communities, each with the lists that
\* detect_scam_indicators and detect_positive_indicators make of it with the
\* lexicons of a TelegramScout
DetectedInTexts ==
    {[text |-> text,
      scam |-> scam_indicators_of(TelegramScout, text),
      positive |-> positive_indicators_of(TelegramScout, text)] :
        text \in {all_text_of(info) : info \in CommunityInfos}}

\* detect_scam_indicators and detect_positive_indicators on the community's
\* text, with the lexicons of a TelegramScout
DetectIndicators ==
    /\ score_pc = "start"
    /\ LET detected == CHOOSE entry \in DetectedInTexts :
                           entry.text = all_text_of(community_info)
       IN /\ scam_indicators' = detected.scam
          /\ positive_indicators' = detected.positive
    /\ score_pc' = "detected"
    /\ UNCHANGED <<community_info, legitimacy_score, risk_level, analysis_result>>
    /\ UNCHANGED research_vars
    /\ UNCHANGED store_vars
    /\ UNCHANGED format_vars
    /\ UNCHANGED job_vars
    /\ UNCHANGED call_vars

CalculateLegitimacyScore ==
    /\ score_pc = "detected"
    /\ legitimacy_score' =
           calculate_legitimacy_score(scam_indicators, positive_indicators, community_info)
    /\ score_pc' = "scored"
    /\ UNCHANGED <<community_info, scam_indicators, positive_indicators, risk_level,
                   analysis_result>>
    /\ UNCHANGED research_vars
    /\ UNCHANGED store_vars
    /\ UNCHANGED format_vars
    /\ UNCHANGED job_vars
    /\ UNCHANGED call_vars

DetermineRiskLevel ==
    /\ score_pc = "scored"
    /\ risk_level' = determine_risk_level(legitimacy_score, scam_indicators)
    /\ score_pc' = "rated"
    /\ UNCHANGED <<community_info, scam_indicators, positive_indicators, legitimacy_score,
                   analysis_result>>
    /\ UNCHANGED research_vars
    /\ UNCHANGED store_vars
    /\ UNCHANGED format_vars
    /\ UNCHANGED job_vars
    /\ UNCHANGED call_vars

\* the bot's call self.project_analyzer.analyze_project(community)
AnalyzeProject ==
    /\ score_pc = "call"
    /\ analysis_result' = analyze_project(project_analyzer, community_info)
    /\ score_pc' = "called"
    /\ UNCHANGED <<community_info, scam_indicators, positive_indicators,
                   legitimacy_score, risk_level>>
    /\ UNCHANGED research_vars
    /\ UNCHANGED store_vars
    /\ UNCHANGED format_vars
    /\ UNCHANGED job_vars
    /\ UNCHANGED call_vars

-----------------------------------------------------------------------------
(* One call of research_project_comprehensive *)

project_identifier == "acme"

ResearchDescriptions == {
    "",
    "An unlimited supply token",
    "Built by our team",
    "Our team and advisor",
    "Our founder, CEO and lead developer run staking, burn and governance" }

MarketCaps == {None, Some(5000000), Some(10000000)}

\* the fields fetch_coingecko_data reads from the detail document
DetailDatas ==
    [name : {Some("Acme Protocol")},
     description : ResearchDescriptions,
     website : {"", "https://acme.example"},
     twitter : {None, Some("acme")},
     telegram : {None, Some("acme_chat")},
     github : {<<>>, <<"https://github.com/acme/core">>},
     market_cap : MarketCaps,
     volume : {None},
     price : {None}]

NoDetail ==
    [name |-> None, description |-> "", website |-> "", twitter |-> None,
     telegram |-> None, github |-> <<>>, market_cap |-> None, volume |-> None,
     price |-> None]

FailedResponses == {
    [raises |-> TRUE, search_status |-> 0, coins |-> FALSE, detail_status |-> 0,
     detail |-> NoDetail],
    [raises |-> FALSE, search_status |-> 429, coins |-> FALSE, detail_status |-> 0,
     detail |-> NoDetail],
    [raises |-> FALSE, search_status |-> 200, coins |-> FALSE, detail_status |-> 0,
     detail |-> NoDetail],
    [raises |-> FALSE, search_status |-> 200, coins |-> TRUE, detail_status |-> 404,
     detail |-> NoDetail] }

Responses ==
    FailedResponses
    \cup {[raises |-> FALSE, search_status |-> 200, coins |-> TRUE, detail_status |-> 200,
           detail |-> d] : d \in DetailDatas}

ResearchStart ==
    /\ research_pc = "start"
    /\ session = "none"
    /\ api_response \in Responses
    /\ basic_info = None
    /\ social_analysis = None
    /\ technical_analysis = None
    /\ team_analysis = None
    /\ community_analysis = None
    /\ tokenomics_analysis = None
    /\ project_needs = NotCalled
    /\ legitimacy_analysis = None
    /\ research_result = NotCalled

ResearchIdle ==
    /\ research_pc = "idle"
    /\ session = "none"
    /\ api_response = None
    /\ basic_info = None
    /\ social_analysis = None
    /\ technical_analysis = None
    /\ team_analysis = None
    /\ community_analysis = None
    /\ tokenomics_analysis = None
    /\ project_needs = NotCalled
    /\ legitimacy_analysis = None
    /\ research_result = NotCalled

\* inputs of a direct call of identify_project_needs
DirectSocialScores == {0, 45, 70, 100}
DirectTechnicalScores == {0, 55, 60, 70, 100}
DirectTeamScores == {0, 30, 49, 50, 70, 100}

DirectSocial ==
    {[twitter |-> [present |-> FALSE, followers |-> 0, engagement |-> "unknown",
                   activity |-> "unknown"],
      telegram |-> [present |-> FALSE, members |-> 0, activity |-> "unknown"],
      discord |-> [present |-> FALSE, members |-> 0, activity |-> "unknown"],
      overall_score |-> score,
      missing_platforms |-> missing,
      recommendations |-> <<>>] :
        score \in DirectSocialScores, missing \in {<<>>, <<"twitter", "telegram">>}}

DirectTechnical ==
    {[technical_score |-> score, missing_elements |-> missing, recommendations |-> <<>>] :
        score \in DirectTechnicalScores,
        missing \in {<<>>, <<"github_repository", "whitepaper">>}}

DirectTeam ==
    {[transparency |-> "unknown", team_score |-> score, missing_elements |-> <<>>,
      recommendations |-> <<>>] : score \in DirectTeamScores}

DirectInfo ==
    {[name |-> Some(project_identifier), description |-> "",
      market_data |-> [market_cap |-> cap, volume |-> None, price |-> None]] :
        cap \in MarketCaps}

\* identify_project_needs is about to be called on analyses given by the caller
NeedsCallStart ==
    /\ research_pc = "call_needs"
    /\ session = "none"
    /\ api_response = None
    /\ basic_info \in DirectInfo
    /\ social_analysis \in DirectSocial
    /\ technical_analysis \in DirectTechnical
    /\ team_analysis \in DirectTeam
    /\ community_analysis = None
    /\ tokenomics_analysis = None
    /\ project_needs = NotCalled
    /\ legitimacy_analysis = None
    /\ research_result = NotCalled

\* identify_project_needs applied to the caller's analyses
CallIdentifyProjectNeeds ==
    /\ research_pc = "call_needs"
    /\ project_needs' = identify_project_needs(basic_info, social_analysis,
                             technical_analysis, team_analysis, community_analysis)
    /\ research_pc' = "needs_returned"
    /\ UNCHANGED <<session, api_response, basic_info, social_analysis,
                   technical_analysis, team_analysis, community_analysis,
                   tokenomics_analysis, legitimacy_analysis, research_result>>
    /\ UNCHANGED community_vars
    /\ UNCHANGED store_vars
    /\ UNCHANGED format_vars
    /\ UNCHANGED job_vars
    /\ UNCHANGED call_vars

\* await self.init_session()
InitSession ==
    /\ research_pc = "start"
    /\ session' = init_session(session)
    /\ research_pc' = "gather"
    /\ UNCHANGED <<api_response, basic_info, social_analysis, technical_analysis,
                   team_analysis, community_analysis, tokenomics_analysis,
                   project_needs, legitimacy_analysis, research_result>>
    /\ UNCHANGED community_vars
    /\ UNCHANGED store_vars
    /\ UNCHANGED format_vars
    /\ UNCHANGED job_vars
    /\ UNCHANGED call_vars

\* Step 1
GatherBasicProjectInfo ==
    /\ research_pc = "gather"
    /\ basic_info' = gather_basic_project_info(session, project_identifier, api_response)
    /\ research_pc' = "social"
    /\ UNCHANGED <<session, api_response, social_analysis, technical_analysis,
                   team_analysis, community_analysis, tokenomics_analysis,
                   project_needs, legitimacy_analysis, research_result>>
    /\ UNCHANGED community_vars
    /\ UNCHANGED store_vars
    /\ UNCHANGED format_vars
    /\ UNCHANGED job_vars
    /\ UNCHANGED call_vars

\* Step 2
AnalyzeSocialPresence ==
    /\ research_pc = "social"
    /\ social_analysis' = analyze_social_presence(project_identifier, basic_info)
    /\ research_pc' = "technical"
    /\ UNCHANGED <<session, api_response, basic_info, technical_analysis,
                   team_analysis, community_analysis, tokenomics_analysis,
                   project_needs, legitimacy_analysis, research_result>>
    /\ UNCHANGED community_vars
    /\ UNCHANGED store_vars
    /\ UNCHANGED format_vars
    /\ UNCHANGED job_vars
    /\ UNCHANGED call_vars

\* Step 3
AnalyzeTechnicalAspects ==
    /\ research_pc = "technical"
    /\ technical_analysis' = analyze_technical_aspects(project_identifier, basic_info)
    /\ research_pc' = "team"
    /\ UNCHANGED <<session, api_response, basic_info, social_analysis,
                   team_analysis, community_analysis, tokenomics_analysis,
                   project_needs, legitimacy_analysis, research_result>>
    /\ UNCHANGED community_vars
    /\ UNCHANGED store_vars
    /\ UNCHANGED format_vars
    /\ UNCHANGED job_vars
    /\ UNCHANGED call_vars

\* Step 4
AnalyzeTeam ==
    /\ research_pc = "team"
    /\ team_analysis' = analyze_team(project_identifier, basic_info)
    /\ research_pc' = "community"
    /\ UNCHANGED <<session, api_response, basic_info, social_analysis,
                   technical_analysis, community_analysis, tokenomics_analysis,
                   project_needs, legitimacy_analysis, research_result>>
    /\ UNCHANGED community_vars
    /\ UNCHANGED store_vars
    /\ UNCHANGED format_vars
    /\ UNCHANGED job_vars
    /\ UNCHANGED call_vars

\* Step 5
AnalyzeCommunityHealth ==
    /\ research_pc = "community"
    /\ community_analysis' = analyze_community_health(project_identifier, basic_info)
    /\ research_pc' = "tokenomics"
    /\ UNCHANGED <<session, api_response, basic_info, social_analysis,
                   technical_analysis, team_analysis, tokenomics_analysis,
                   project_needs, legitimacy_analysis, research_result>>
    /\ UNCHANGED community_vars
    /\ UNCHANGED store_vars
    /\ UNCHANGED format_vars
    /\ UNCHANGED job_vars
    /\ UNCHANGED call_vars

\* Step 6
AnalyzeTokenomicsDeep ==
    /\ research_pc = "tokenomics"
    /\ tokenomics_analysis' = analyze_tokenomics_deep(project_identifier, basic_info)
    /\ research_pc' = "needs"
    /\ UNCHANGED <<session, api_response, basic_info, social_analysis,
                   technical_analysis, team_analysis, community_analysis,
                   project_needs, legitimacy_analysis, research_result>>
    /\ UNCHANGED community_vars
    /\ UNCHANGED store_vars
    /\ UNCHANGED format_vars
    /\ UNCHANGED job_vars
    /\ UNCHANGED call_vars

\* Step 7; an exception leaves the try block for the finally clause
IdentifyProjectNeeds ==
    /\ research_pc = "needs"
    /\ LET needs == identify_project_needs(basic_info, social_analysis,
                         technical_analysis, team_analysis, community_analysis)
       IN /\ project_needs' = needs
          /\ IF needs.raised
             THEN research_pc' = "finally" /\ research_result' = needs
             ELSE research_pc' = "legitimacy" /\ UNCHANGED research_result
    /\ UNCHANGED <<session, api_response, basic_info, social_analysis,
                   technical_analysis, team_analysis, community_analysis,
                   tokenomics_analysis, legitimacy_analysis>>
    /\ UNCHANGED community_vars
    /\ UNCHANGED store_vars
    /\ UNCHANGED format_vars
    /\ UNCHANGED job_vars
    /\ UNCHANGED call_vars

\* Step 8 and the return statement
CreateLegitimacyAnalysis ==
    /\ research_pc = "legitimacy"
    /\ LET legitimacy == create_legitimacy_analysis(basic_info, social_analysis,
                              technical_analysis, team_analysis)
       IN /\ legitimacy_analysis' = legitimacy
          /\ research_result' = Return(ComprehensiveProjectAnalysis(
                 project_identifier, basic_info, social_analysis, technical_analysis,
                 team_analysis, community_analysis, tokenomics_analysis,
                 project_needs.value[1], legitimacy))
    /\ research_pc' = "finally"
    /\ UNCHANGED <<session, api_response, basic_info, social_analysis,
                   technical_analysis, team_analysis, community_analysis,
                   tokenomics_analysis, project_needs>>
    /\ UNCHANGED community_vars
    /\ UNCHANGED store_vars
    /\ UNCHANGED format_vars
    /\ UNCHANGED job_vars
    /\ UNCHANGED call_vars

\* finally: await self.close_session()
CloseSession ==
    /\ research_pc = "finally"
    /\ session' = close_session(session)
    /\ research_pc' = "done"
    /\ UNCHANGED <<api_response, basic_info, social_analysis, technical_analysis,
                   team_analysis, community_analysis, tokenomics_analysis,
                   project_needs, legitimacy_analysis, research_result>>
    /\ UNCHANGED community_vars
    /\ UNCHANGED store_vars
    /\ UNCHANGED format_vars
    /\ UNCHANGED job_vars
    /\ UNCHANGED call_vars

-----------------------------------------------------------------------------
(* The alert store and the broadcast to subscribers.                       *)
(*                                                                         *)
(* The store operations are applied to alerts given by the caller.  Each   *)
(* operation opens and closes its own connection and contains no await, so *)
(* it is one step.  broadcast_community_alerts is suspended only while it  *)
(* awaits send_message and the sleep that follows it.                      *)

CommunitySize == [MICRO |-> "1-30", SMALL |-> "31-50", MEDIUM_SMALL |-> "51-100",
                  MEDIUM |-> "101-200", GROWING |-> "201-500"]

\* the size category both scan loops and get_unsent_community_alerts compute
size_category_of(member_count) ==
    IF 1 <= member_count /\ member_count <= 30 THEN CommunitySize.MICRO
    ELSE IF 31 <= member_count /\ member_count <= 50 THEN CommunitySize.SMALL
    ELSE IF 51 <= member_count /\ member_count <= 100 THEN CommunitySize.MEDIUM_SMALL
    ELSE IF 101 <= member_count /\ member_count <= 200 THEN CommunitySize.MEDIUM
    ELSE CommunitySize.GROWING

\* hashlib.md5(text.encode()).hexdigest(), as a tagged copy of the text
md5_hexdigest(text) == "md5:" \o text

\* json.dumps and json.loads of a list of strings, datetime.isoformat and
\* datetime.fromisoformat: the stored text is the value under a tag
json_dumps(value) == <<"json", value>>
json_loads(text) == text[2]
isoformat(t) == <<"iso", t>>
fromisoformat(text) == text[2]

\* the CommunityAlert both scan loops build from a community and its analysis
CommunityAlert(community, analysis, now) ==
    [community_info |-> community,
     project_analysis |-> analysis,
     discovery_timestamp |-> now,
     unique_id |-> md5_hexdigest(community.title \o community.username),
     size_category |-> size_category_of(community.member_count)]

\* the row INSERT INTO telegram_communities stores for an alert; id is the
\* AUTOINCREMENT key and sent takes its DEFAULT FALSE
row_of(alert, id) ==
    [id |-> id,
     unique_id |-> alert.unique_id,
     title |-> alert.community_info.title,
     username |-> alert.community_info.username,
     member_count |-> alert.community_info.member_count,
     description |-> alert.community_info.description,
     admin_count |-> alert.community_info.admin_count,
     creation_date |-> IF alert.community_info.creation_date # None
                       THEN Some(isoformat(alert.community_info.creation_date[1]))
                       ELSE None,
     invite_link |-> alert.community_info.invite_link,
     legitimacy_score |-> alert.project_analysis.legitimacy_score,
     risk_level |-> alert.project_analysis.risk_level,
     scam_indicators |-> json_dumps(alert.project_analysis.scam_indicators),
     positive_indicators |-> json_dumps(alert.project_analysis.positive_indicators),
     tokenomics_analysis |-> alert.project_analysis.tokenomics_analysis,
     roadmap_quality |-> alert.project_analysis.roadmap_quality,
     team_analysis |-> alert.project_analysis.team_analysis,
     sentiment_score |-> alert.project_analysis.sentiment_score,
     discovery_timestamp |-> isoformat(alert.discovery_timestamp),
     sent |-> FALSE]

\* mutation of add_community_alert: INSERT OR REPLACE instead of INSERT
add_community_alert_or_replace(table, alert) ==
    IF \E k \in 1..Len(table) : table[k].unique_id = alert.unique_id
    THEN [table |-> [k \in 1..Len(table) |->
                        IF table[k].unique_id = alert.unique_id
                        THEN row_of(alert, table[k].id) ELSE table[k]],
          result |-> Return(TRUE)]
    ELSE [table |-> Append(table, row_of(alert, Len(table) + 1)),
          result |-> Return(TRUE)]

\* add_community_alert: the UNIQUE constraint on unique_id makes the INSERT
\* of a known id raise sqlite3.IntegrityError, which is answered with False
add_community_alert(table, alert) ==
    IF \E k \in 1..Len(table) : table[k].unique_id = alert.unique_id
    THEN [table |-> table, result |-> Return(FALSE)]
    ELSE [table |-> Append(table, row_of(alert, Len(table) + 1)),
          result |-> Return(TRUE)]

\* the CommunityAlert get_unsent_community_alerts rebuilds from a row
alert_of_row(row) ==
    [community_info |->
        [title |-> row.title, username |-> row.username,
         member_count |-> row.member_count, description |-> row.description,
         recent_messages |-> <<>>, admin_count |-> row.admin_count,
         creation_date |-> IF row.creation_date # None
                           THEN Some(fromisoformat(row.creation_date[1])) ELSE None,
         invite_link |-> row.invite_link, category |-> "crypto",
         verified |-> FALSE, restricted |-> FALSE],
     project_analysis |->
        [legitimacy_score |-> row.legitimacy_score,
         scam_indicators |-> json_loads(row.scam_indicators),
         positive_indicators |-> json_loads(row.positive_indicators),
         risk_level |-> row.risk_level,
         tokenomics_analysis |-> row.tokenomics_analysis,
         roadmap_quality |-> row.roadmap_quality,
         team_analysis |-> row.team_analysis,
         sentiment_score |-> row.sentiment_score],
     discovery_timestamp |-> fromisoformat(row.discovery_timestamp),
     unique_id |-> row.unique_id,
     size_category |-> size_category_of(row.member_count)]

\* SELECT * FROM telegram_communities WHERE sent = FALSE, rebuilt as alerts
RECURSIVE get_unsent_community_alerts(_)
get_unsent_community_alerts(table) ==
    IF Len(table) = 0 THEN <<>>
    ELSE (IF ~Head(table).sent THEN <<alert_of_row(Head(table))>> ELSE <<>>)
         \o get_unsent_community_alerts(Tail(table))

\* mutation of mark_community_alert_sent: the flag is toggled
mark_community_alert_sent_toggle(table, unique_id) ==
    [k \in 1..Len(table) |->
        IF table[k].unique_id = unique_id
        THEN [table[k] EXCEPT !.sent = ~@] ELSE table[k]]

\* UPDATE telegram_communities SET sent = TRUE WHERE unique_id = ?
mark_community_alert_sent(table, unique_id) ==
    [k \in 1..Len(table) |->
        IF table[k].unique_id = unique_id
        THEN [table[k] EXCEPT !.sent = TRUE] ELSE table[k]]

\* the chat ids of the table subscribers, in key order
RECURSIVE chat_ids_from(_, _)
chat_ids_from(table, n) ==
    IF \A c \in DOMAIN table : c < n THEN <<>>
    ELSE LET c == CHOOSE x \in DOMAIN table :
                      x >= n /\ \A y \in DOMAIN table : y >= n => x <= y
         IN <<c>> \o chat_ids_from(table, c + 1)

get_subscribers(table) == chat_ids_from(table, 0)

\* the preferences stored for a chat, or None
get_user_preferences(table, chat_id) ==
    IF chat_id \in DOMAIN table THEN table[chat_id] ELSE None

\* mutation of should_send_community_to_user: the size filter is not applied
should_send_community_to_user_unfiltered(alert, prefs) ==
    LET telegram_enabled == Get(prefs, "telegram_communities", TRUE)
    IN IF ~telegram_enabled THEN FALSE
       ELSE IF alert.project_analysis.risk_level = ScamRisk.CRITICAL THEN FALSE
       ELSE TRUE

\* mutation of should_send_community_to_user: critical alerts are sent too
should_send_community_to_user_critical_too(alert, prefs) ==
    LET telegram_enabled == Get(prefs, "telegram_communities", TRUE)
        community_filters == Get(prefs, "community_size_filters", <<>>)
    IN IF ~telegram_enabled THEN FALSE
       ELSE IF community_filters # <<>>
               /\ ~InList(alert.size_category, community_filters) THEN FALSE
       ELSE TRUE

\* should_send_community_to_user; getattr supplies True and [] for a
\* preferences object without the two attributes
should_send_community_to_user(alert, prefs) ==
    LET telegram_enabled == Get(prefs, "telegram_communities", TRUE)
        community_filters == Get(prefs, "community_size_filters", <<>>)
    IN IF ~telegram_enabled THEN FALSE
       ELSE IF community_filters # <<>>
               /\ ~InList(alert.size_category, community_filters) THEN FALSE
       ELSE IF alert.project_analysis.risk_level = ScamRisk.CRITICAL THEN FALSE
       ELSE TRUE

\* risk_emoji of send_community_alert and format_project_overview, the
\* emojis written as words
risk_emoji == [low |-> "[check]", medium |-> "[warning]", high |-> "[diamond]",
               critical |-> "[siren]"]

\* x or placeholder, for an optional string x
OrElse(x, placeholder) == IF Truthy(x) THEN x[1] ELSE placeholder

\* timestamp.strftime('%Y-%m-%d %H:%M UTC') of a datetime given by a serial
\* number
strftime(t) == "day " \o str_of_int(t) \o " UTC"

\* f"{sentiment:.2f}" of a sentiment given in hundredths
format_2f(hundredths) ==
    LET magnitude == IF hundredths < 0 THEN 0 - hundredths ELSE hundredths
    IN (IF hundredths < 0 THEN "-" ELSE "")
       \o str_of_int(magnitude \div 100) \o "."
       \o str_of_int((magnitude % 100) \div 10) \o str_of_int(magnitude % 10)

\* f"{text[:budget]}{'...' if len(text) > budget else ''}"
truncated(text, budget) ==
    StrPrefix(text, budget) \o (IF Len(text) > budget THEN "..." ELSE "")

(* The message of send_community_alert, given by the values its f-string    *)
(* substitutes, under the names of the lines they stand on; the fixed text  *)
(* of the template is left out.  The expressions are evaluated in order,    *)
(* and description[:300] raises TypeError when description is None.         *)
community_alert_message(alert) ==
    LET analysis == alert.project_analysis
        community == alert.community_info
        warning_text ==
            IF analysis.risk_level \in {ScamRisk.HIGH, ScamRisk.CRITICAL}
            THEN "WARNING SIGNS: " \o join(", ", Prefix(analysis.scam_indicators, 3))
            ELSE ""
        positive_text ==
            IF Len(analysis.positive_indicators) > 0
            THEN "POSITIVE SIGNS: " \o join(", ", Prefix(analysis.positive_indicators, 3))
            ELSE ""
        sentiment == analysis.sentiment_score
        sentiment_emoji == IF sentiment > 10 THEN "[smile]"
                           ELSE IF sentiment > 0 - 10 THEN "[neutral]"
                           ELSE "[worried]"
    IN IF community.description = None THEN Raise("TypeError")
       ELSE Return([
           title |-> community.title,
           members |-> str_of_int(community.member_count)
                       \o " (" \o alert.size_category \o ")",
           link |-> OrElse(community.invite_link, "Private"),
           risk_color |-> risk_emoji[analysis.risk_level],
           legitimacy_score |-> format_1f(analysis.legitimacy_score) \o "/100",
           risk_level |-> upper(analysis.risk_level),
           sentiment |-> sentiment_emoji \o " " \o format_2f(sentiment),
           project_overview |-> truncated(community.description[1], 300),
           warning_text |-> warning_text,
           positive_text |-> positive_text,
           tokenomics |-> OrElse(analysis.tokenomics_analysis, "Not analyzed"),
           roadmap |-> OrElse(analysis.roadmap_quality, "No roadmap info"),
           team |-> OrElse(analysis.team_analysis, "Team info limited"),
           admins |-> str_of_int(community.admin_count),
           discovered |-> strftime(alert.discovery_timestamp),
           caution |-> IF analysis.risk_level = ScamRisk.CRITICAL
                       THEN "PROCEED WITH EXTREME CAUTION" ELSE ""])

\* send_community_alert up to its call of bot.send_message: the message is
\* formatted first, and an exception of send_message itself is caught
send_community_alert(alert, chat_id) ==
    LET message == community_alert_message(alert)
    IN IF message.raised THEN message
       ELSE Return([alert |-> alert, chat_id |-> chat_id])

(* broadcast_community_alerts from position (i, j) of its two loops up to   *)
(* the next await or to its end: subscribers the alert is not for are       *)
(* skipped, an alert whose subscribers are exhausted is marked sent, and    *)
(* the run stops when an alert is handed to send_message, when formatting   *)
(* raises, or when the alerts are exhausted.  The loops go on with the     *)
(* table and the position taken from singleton sets, which fixes their     *)
(* values before the next round is entered.                                *)
RECURSIVE broadcast_run(_, _, _)
broadcast_run(table, prefs_table, st) ==
    IF st.i > Len(st.alerts)
    THEN [table |-> table, send |-> None,
          st |-> [st EXCEPT !.pc = "idle", !.outcome = "returned"]]
    ELSE LET alert == st.alerts[st.i] IN
         IF st.j > Len(st.subscribers)
         THEN CHOOSE run \in {broadcast_run(marked, prefs_table, next) :
                                  marked \in {mark_community_alert_sent(table, alert.unique_id)},
                                  next \in {[st EXCEPT !.i = @ + 1, !.j = 1,
                                                       !.sent_count = 0]}} : TRUE
         ELSE LET chat_id == st.subscribers[st.j]
                  prefs == get_user_preferences(prefs_table, chat_id)
              IN IF prefs # None /\ should_send_community_to_user(alert, prefs[1])
                 THEN LET sending == send_community_alert(alert, chat_id) IN
                      IF sending.raised
                      THEN [table |-> table, send |-> None,
                            st |-> [st EXCEPT !.pc = "idle", !.outcome = "raised"]]
                      ELSE [table |-> table, send |-> sending.value,
                            st |-> [st EXCEPT !.pc = "sending"]]
                 ELSE CHOOSE run \in {broadcast_run(table, prefs_table, next) :
                                          next \in {[st EXCEPT !.j = @ + 1]}} : TRUE

\* the two scans, which add alerts and then call broadcast_community_alerts
Broadcasters == {"community_monitoring_job", "scout_communities_command"}

\* communities and analyses of the alerts handed to the store
LowRiskAnalysis ==
    [legitimacy_score |-> 70 * ScoreScale,
     scam_indicators |-> <<>>,
     positive_indicators |-> <<"POSITIVE: roadmap">>,
     risk_level |-> determine_risk_level(70 * ScoreScale, <<>>),
     tokenomics_analysis |-> Some("Supply mentioned"),
     roadmap_quality |-> None,
     team_analysis |-> Some("Limited team information"),
     sentiment_score |-> 0]

LowScoreAnalysis ==
    [LowRiskAnalysis EXCEPT
        !.legitimacy_score = 10 * ScoreScale,
        !.scam_indicators = <<"MEDIUM RISK: presale">>,
        !.risk_level = determine_risk_level(10 * ScoreScale, <<"MEDIUM RISK: presale">>)]

HighRiskPhraseAnalysis ==
    [LowRiskAnalysis EXCEPT
        !.scam_indicators = <<"HIGH RISK: guaranteed profit">>,
        !.risk_level = determine_risk_level(70 * ScoreScale,
                                            <<"HIGH RISK: guaranteed profit">>)]

\* a community as get_community_info returns it; description is the
\* entity's about text, an optional string
Community(title, member_count, description) ==
    [title |-> title, username |-> "", member_count |-> member_count,
     description |-> description, recent_messages |-> <<>>, admin_count |-> 1,
     creation_date |-> None, invite_link |-> None, category |-> "crypto",
     verified |-> FALSE, restricted |-> FALSE]

\* two communities, each seen by two scans with different results
Alerts == {
    CommunityAlert(Community("Alpha", 25, Some("alpha")), LowRiskAnalysis, 1),
    CommunityAlert(Community("Alpha", 40, Some("alpha")), LowScoreAnalysis, 2),
    CommunityAlert(Community("Beta", 0, Some("beta")), HighRiskPhraseAnalysis, 1),
    CommunityAlert(Community("Beta", 25, None), LowRiskAnalysis, 2) }

\* chat ids of the subscribers
Chats == {101, 102}

\* what the table subscribers can hold for a chat: no preferences, the
\* column defaults, a switched-off subscription and two size filters
StoredPreferences == {
    None,
    Some([telegram_communities |-> TRUE, community_size_filters |-> <<>>]),
    Some([telegram_communities |-> FALSE, community_size_filters |-> <<>>]),
    Some([telegram_communities |-> TRUE, community_size_filters |-> <<"1-30">>]),
    Some([telegram_communities |-> TRUE,
          community_size_filters |-> <<"31-50", "201-500">>]) }

BroadcastIdle ==
    [pc |-> "idle", outcome |-> "none", new_alerts |-> 0, alerts |-> <<>>,
     subscribers |-> <<>>, i |-> 1, j |-> 1, sent_count |-> 0]

StoreStart ==
    /\ telegram_communities = <<>>
    /\ subscribers \in [Chats -> StoredPreferences]
    /\ add_log = <<>>
    /\ broadcast = [p \in Broadcasters |-> BroadcastIdle]
    /\ sent_messages = {}

StoreIdle ==
    /\ telegram_communities = <<>>
    /\ subscribers = <<>>
    /\ add_log = <<>>
    /\ broadcast = <<>>
    /\ sent_messages = {}

StoreInUse == broadcast # <<>>

\* a scan's step for one community: the alert is built and handed to
\* add_community_alert, and new_alerts counts the calls that return True
AddCommunityAlert ==
    /\ StoreInUse
    /\ Len(add_log) < MaxAdds
    /\ \E p \in Broadcasters, alert \in Alerts :
          LET added == add_community_alert(telegram_communities, alert) IN
          /\ broadcast[p].pc = "idle"
          /\ telegram_communities' = added.table
          /\ add_log' = Append(add_log, [by |-> p,
                                         alert |-> alert,
                                         result |-> added.result,
                                         before |-> telegram_communities,
                                         after |-> added.table])
          /\ broadcast' = [broadcast EXCEPT ![p].new_alerts =
                               IF added.result.value = Some(TRUE) THEN @ + 1 ELSE @]
    /\ UNCHANGED <<subscribers, sent_messages>>
    /\ UNCHANGED <<community_vars, research_vars, format_vars, job_vars, call_vars>>

\* what a run of broadcast_community_alerts up to its next await does
BroadcastRuns(p, st) ==
    \E run \in {broadcast_run(telegram_communities, subscribers, st)} :
    /\ telegram_communities' = run.table
    /\ broadcast' = [broadcast EXCEPT ![p] = run.st]
    /\ sent_messages' =
          IF run.send = None THEN sent_messages
          ELSE sent_messages \cup {[alert |-> run.send[1].alert,
                                    chat_id |-> run.send[1].chat_id,
                                    by |-> p]}
    /\ UNCHANGED <<subscribers, add_log>>
    /\ UNCHANGED <<community_vars, research_vars, format_vars, job_vars, call_vars>>

\* the end of a scan: the manual command always calls
\* broadcast_community_alerts, the job when its scan added an alert; the
\* call runs to its first await
BroadcastCommunityAlertsBy(p) ==
    /\ broadcast[p].pc = "idle"
    /\ p = "community_monitoring_job" => broadcast[p].new_alerts > 0
    /\ \E alerts \in {get_unsent_community_alerts(telegram_communities)} :
          BroadcastRuns(p, [pc |-> "loop", outcome |-> "none", new_alerts |-> 0,
                            alerts |-> alerts,
                            subscribers |-> get_subscribers(subscribers),
                            i |-> 1, j |-> 1, sent_count |-> 0])

BroadcastCommunityAlerts ==
    /\ StoreInUse
    /\ \E p \in Broadcasters : BroadcastCommunityAlertsBy(p)

\* a scan that added an alert goes on to its broadcast
ScanEndsInBroadcast(p) ==
    /\ StoreInUse
    /\ broadcast[p].new_alerts > 0
    /\ BroadcastCommunityAlertsBy(p)

\* send_community_alert and the sleep return, and the loop goes on
SendCommunityAlertReturns ==
    /\ StoreInUse
    /\ \E p \in Broadcasters :
          /\ broadcast[p].pc = "sending"
          /\ BroadcastRuns(p, [broadcast[p] EXCEPT !.pc = "loop",
                                                   !.sent_count = @ + 1,
                                                   !.j = @ + 1])

-----------------------------------------------------------------------------
(* The formatters of the bot.  A message is given by the values its         *)
(* f-string substitutes, under the names of the lines they stand on; the   *)
(* fixed text of the template is left out.  A formatter yields its outcome *)
(* and the analysis as the call leaves it.                                 *)

\* f'[mark] {name.replace("_", " ").title()}' for the first four names,
\* joined by chr(10)
marked_lines(mark, names) ==
    join("\n", [k \in 1..Min(4, Len(names)) |->
                   mark \o " " \o Title(replace(names[k], "_", " "))])

\* format_project_overview; project_name.upper() raises AttributeError for a
\* name of None
format_project_overview(analysis) ==
    LET legitimacy == analysis.legitimacy_analysis
        risk_icon == risk_emoji[legitimacy.risk_level]
        warning_text ==
            IF legitimacy.risk_level \in {ScamRisk.HIGH, ScamRisk.CRITICAL}
            THEN "WARNING: " \o join(", ", Prefix(legitimacy.scam_indicators, 2))
            ELSE ""
    IN [analysis |-> analysis,
        outcome |->
            IF analysis.project_name = None THEN Raise("AttributeError")
            ELSE Return([
                project_name |-> upper(analysis.project_name[1]),
                overall_maturity |-> Title(analysis.project_needs.overall_maturity),
                legitimacy_score |-> risk_icon \o " "
                                     \o format_1f(legitimacy.legitimacy_score) \o "/100",
                risk_level |-> upper(legitimacy.risk_level),
                warning_text |-> warning_text,
                project_description |-> truncated(analysis.project_description, 400),
                strengths |-> marked_lines("[check]", analysis.project_needs.strengths),
                needs_improvement |->
                    marked_lines("[cross]", analysis.project_needs.improvement_areas),
                research_date |-> strftime(analysis.research_timestamp),
                sources |-> join(", ", analysis.sources_analyzed)])]

\* the mark of a truth value in format_detailed_analysis
Mark(b) == IF b THEN "[check]" ELSE "[cross]"

\* ', '.join(xs) if xs else placeholder
JoinedOr(xs, placeholder) == IF Len(xs) > 0 THEN join(", ", xs) ELSE placeholder

format_detailed_analysis(analysis) ==
    LET social == analysis.social_presence
        technical == analysis.technical_analysis
        team == analysis.team_analysis
        community == analysis.community_health
        tokenomics == analysis.tokenomics_deep_dive
    IN [analysis |-> analysis,
        outcome |-> Return([
            social_media_presence |-> str_of_int(social.overall_score) \o "/100",
            missing_platforms |-> JoinedOr(social.missing_platforms, "None"),
            twitter |-> Mark(social.twitter.present) \o " ("
                        \o format_thousands(social.twitter.followers) \o " followers)",
            telegram |-> Mark(social.telegram.present) \o " ("
                         \o format_thousands(social.telegram.members) \o " members)",
            discord |-> Mark(social.discord.present),
            technical_foundation |-> str_of_int(technical.technical_score) \o "/100",
            github |-> Mark(technical.github.present),
            whitepaper |-> Mark(technical.whitepaper.present),
            smart_contracts |-> IF technical.smart_contracts.deployed
                                THEN "[check] Deployed" ELSE "[cross] Not Found",
            security_audit |-> Mark(technical.smart_contracts.audited),
            team_transparency |-> str_of_int(team.team_score) \o "/100",
            transparency_level |-> Title(team.transparency),
            linkedin_profiles |-> str_of_int(team.linkedin_profiles),
            public_backgrounds |-> str_of_int(team.public_backgrounds),
            tokenomics_analysis |-> str_of_int(tokenomics.tokenomics_score) \o "/100",
            burn_mechanism |-> Mark(tokenomics.burn_mechanism),
            staking |-> Mark(tokenomics.staking),
            governance |-> Mark(tokenomics.governance),
            red_flags |-> JoinedOr(tokenomics.red_flags, "None identified"),
            community_health |-> str_of_int(community.community_score) \o "/100",
            size |-> community.size,
            engagement |-> community.engagement_rate,
            sentiment |-> Title(community.community_sentiment)])]

\* urgency_emoji.get(urgency, default) of format_job_opportunities
urgency_emoji(urgency) ==
    IF urgency = "high" THEN "[fire]"
    ELSE IF urgency = "medium" THEN "[bolt]"
    ELSE IF urgency = "low" THEN "[bulb]"
    ELSE "[briefcase]"

\* job_msg of format_job_opportunities for one opportunity
job_message(job) ==
    [heading |-> urgency_emoji(job.urgency) \o " "
                 \o upper(replace(job.category, "_", " "))
                 \o " - " \o upper(job.urgency) \o " PRIORITY",
     role |-> job.description,
     budget |-> job.estimated_budget,
     commitment |-> job.time_commitment,
     requirements |-> join("\n", [k \in 1..Len(job.requirements) |->
                                     "* " \o job.requirements[k]]),
     how_to_pitch |-> job.pitch_strategy]

\* mutation of format_job_opportunities: the list is cut in place to the
\* four opportunities shown, del jobs[4:], after the count is taken
format_job_opportunities_cutting(analysis) ==
    LET jobs == Prefix(analysis.project_needs.job_opportunities, 4)
    IN [analysis |-> [analysis EXCEPT !.project_needs.job_opportunities = jobs],
        outcome |->
            IF Len(analysis.project_needs.job_opportunities) = 0
            THEN Return([found |-> "No specific job opportunities identified.",
                         job_messages |-> <<>>])
            ELSE Return([found |-> "Found "
                                   \o str_of_int(Len(analysis.project_needs.job_opportunities))
                                   \o " opportunities for this project:",
                         job_messages |-> [k \in 1..Len(jobs) |-> job_message(jobs[k])]])]

\* format_job_opportunities: the first four opportunities are shown, all
\* are counted
format_job_opportunities(analysis) ==
    LET jobs == analysis.project_needs.job_opportunities
    IN [analysis |-> analysis,
        outcome |->
            IF Len(jobs) = 0
            THEN Return([found |-> "No specific job opportunities identified.",
                         job_messages |-> <<>>])
            ELSE Return([found |-> "Found " \o str_of_int(Len(jobs))
                                   \o " opportunities for this project:",
                         job_messages |-> [k \in 1..Min(4, Len(jobs)) |->
                                              job_message(jobs[k])]])]

\* priority_actions of format_action_plan: one line for each high-urgency
\* opportunity among the first three
RECURSIVE priority_actions_of(_)
priority_actions_of(jobs) ==
    IF Len(jobs) = 0 THEN <<>>
    ELSE (IF Head(jobs).urgency = "high"
          THEN <<"[fire] " \o Title(replace(Head(jobs).category, "_", " "))
                 \o " - Act within 48 hours">>
          ELSE <<>>)
         \o priority_actions_of(Tail(jobs))

\* mutation of format_action_plan: the priority actions are taken from the
\* first two opportunities
format_action_plan_first_two(analysis) ==
    LET maturity == analysis.project_needs.overall_maturity
        jobs == analysis.project_needs.job_opportunities
        stage_advice == IF maturity = "early" THEN "EARLY STAGE PROJECT"
                        ELSE IF maturity = "developing" THEN "DEVELOPING PROJECT"
                        ELSE "MATURE PROJECT"
        priority_actions == priority_actions_of(Prefix(jobs, 2))
    IN [analysis |-> analysis,
        outcome |-> Return([
            stage_advice |-> stage_advice,
            priority_actions |->
                IF Len(priority_actions) > 0 THEN join("\n", priority_actions)
                ELSE "* Research project updates and recent news",
            time_sensitive_opportunities |->
                str_of_int(Cardinality({k \in 1..Len(jobs) : jobs[k].urgency = "high"}))])]

\* format_action_plan: the advice for the maturity, the priority actions and
\* the number of high-urgency opportunities
format_action_plan(analysis) ==
    LET maturity == analysis.project_needs.overall_maturity
        jobs == analysis.project_needs.job_opportunities
        stage_advice == IF maturity = "early" THEN "EARLY STAGE PROJECT"
                        ELSE IF maturity = "developing" THEN "DEVELOPING PROJECT"
                        ELSE "MATURE PROJECT"
        priority_actions == priority_actions_of(Prefix(jobs, 3))
    IN [analysis |-> analysis,
        outcome |-> Return([
            stage_advice |-> stage_advice,
            priority_actions |->
                IF Len(priority_actions) > 0 THEN join("\n", priority_actions)
                ELSE "* Research project updates and recent news",
            time_sensitive_opportunities |->
                str_of_int(Cardinality({k \in 1..Len(jobs) : jobs[k].urgency = "high"}))])]

\* alerts handed to send_community_alert: descriptions of 0, 300 and 301
\* characters and none, with and without the optional fields
MessageDescriptions == {None, Some(""), Some(Repeat("d", 300)), Some(Repeat("d", 301))}

MessageAnalyses == {
    LowRiskAnalysis,
    HighRiskPhraseAnalysis,
    [LowScoreAnalysis EXCEPT !.tokenomics_analysis = None, !.team_analysis = None],
    [LowRiskAnalysis EXCEPT !.tokenomics_analysis = Some(""),
                            !.roadmap_quality = Some("Roadmap available"),
                            !.positive_indicators = <<>>] }

MessageAlerts ==
    {CommunityAlert([Community("Alpha", 25, description)
                        EXCEPT !.username = username,
                               !.invite_link = IF username = "" THEN None
                                               ELSE Some("https://t.me/" \o username)],
                    analysis, 1) :
        description \in MessageDescriptions, analysis \in MessageAnalyses,
        username \in {"", "alpha"}}

\* project descriptions of 400 and 401 characters
LongDescriptions == {Repeat("d", 400), Repeat("d", 401)}

\* the analyses research_project_comprehensive returns for the answers of
\* the market-data API, and for answers with a long description
FormatResponses ==
    Responses
    \cup {[raises |-> FALSE, search_status |-> 200, coins |-> TRUE, detail_status |-> 200,
           detail |-> [name |-> Some("Acme Protocol"), description |-> description,
                       website |-> "", twitter |-> None, telegram |-> None,
                       github |-> <<>>, market_cap |-> Some(5000000),
                       volume |-> None, price |-> None]] :
             description \in LongDescriptions}

FormatAnalyses ==
    {outcome.value[1] :
        outcome \in {o \in {research_project_comprehensive("none", project_identifier, r) :
                               r \in FormatResponses} : ~o.raised}}

\* the formatters send_comprehensive_research_results calls
Formatters == {"format_project_overview", "format_detailed_analysis",
               "format_job_opportunities", "format_action_plan"}

FormatIdle ==
    /\ format_pc = "idle"
    /\ format_input = None
    /\ format_output = <<>>

\* format_pc names the formatter that is to be called
FormatStart ==
    /\ format_output = <<>>
    /\ \/ format_pc = "send_community_alert" /\ format_input \in MessageAlerts
       \/ format_pc \in Formatters /\ format_input \in FormatAnalyses

\* the argument of the next call: the object as the last call left it
FormatArgument ==
    IF format_output = <<>> THEN format_input
    ELSE format_output[Len(format_output)].argument

\* the message send_community_alert builds before it calls send_message
FormatCommunityAlert ==
    /\ format_pc = "send_community_alert"
    /\ Len(format_output) < MaxFormatCalls
    /\ format_output' = Append(format_output,
                                [outcome |-> community_alert_message(FormatArgument),
                                 argument |-> FormatArgument])
    /\ UNCHANGED <<format_pc, format_input>>
    /\ UNCHANGED <<community_vars, research_vars, store_vars, job_vars, call_vars>>

\* a call of a formatter: the message is recorded, and the analysis is
\* what the call leaves of it
Formats(formatter, call) ==
    /\ format_pc = formatter
    /\ Len(format_output) < MaxFormatCalls
    /\ format_output' = Append(format_output, [outcome |-> call.outcome,
                                                argument |-> call.analysis])
    /\ UNCHANGED <<format_pc, format_input>>
    /\ UNCHANGED <<community_vars, research_vars, store_vars, job_vars, call_vars>>

FormatProjectOverview ==
    Formats("format_project_overview", format_project_overview(FormatArgument))

FormatDetailedAnalysis ==
    Formats("format_detailed_analysis", format_detailed_analysis(FormatArgument))

FormatJobOpportunities ==
    Formats("format_job_opportunities", format_job_opportunities(FormatArgument))

FormatActionPlan ==
    Formats("format_action_plan", format_action_plan(FormatArgument))

-----------------------------------------------------------------------------
(* Calls of research_project_comprehensive on the one ProjectResearcher of *)
(* the bot.  A call is suspended only where it awaits the network: in the  *)
(* two requests of fetch_coingecko_data and in the close of the session;   *)
(* the other steps of the pipeline run without giving up control.  The     *)
(* calls share self.session.                                               *)

ResearchCalls == 1..MaxCalls

CallsIdle ==
    /\ call_pc = [c \in ResearchCalls |-> "idle"]
    /\ fetch_log = <<>>

\* the /research commands have arrived, no call has begun
CallsStart ==
    /\ call_pc = [c \in ResearchCalls |-> "start"]
    /\ fetch_log = <<>>

\* a request of call c on the session as it is
Request(c, url) == [call |-> c, url |-> url, session |-> session]

\* await self.init_session() and the search request of
\* fetch_coingecko_data: self.session.get(search_url).  On a session that
\* is not open the request raises, the exception is caught and the
\* pipeline runs to its finally; else the search finds a coin or none.
CallSearch(c) ==
    /\ call_pc[c] = "start"
    /\ LET sess == init_session(session) IN
       /\ session' = sess
       /\ fetch_log' = Append(fetch_log, [call |-> c, url |-> "search", session |-> sess])
       /\ \E coins \in BOOLEAN :
             call_pc' = [call_pc EXCEPT
                            ![c] = IF sess = "open" /\ coins THEN "detail" ELSE "finally"]
    /\ UNCHANGED research_locals
    /\ UNCHANGED <<community_vars, store_vars, format_vars, job_vars>>

\* the detail request: self.session.get(detail_url)
CallDetail(c) ==
    /\ call_pc[c] = "detail"
    /\ fetch_log' = Append(fetch_log, Request(c, "detail"))
    /\ call_pc' = [call_pc EXCEPT ![c] = "finally"]
    /\ UNCHANGED research_vars
    /\ UNCHANGED <<community_vars, store_vars, format_vars, job_vars>>

\* finally: await self.close_session()
CallCloseSession(c) ==
    /\ call_pc[c] = "finally"
    /\ session' = close_session(session)
    /\ call_pc' = [call_pc EXCEPT ![c] = "done"]
    /\ UNCHANGED fetch_log
    /\ UNCHANGED research_locals
    /\ UNCHANGED <<community_vars, store_vars, format_vars, job_vars>>

\* a step of one of the calls
ResearchCall ==
    \E c \in ResearchCalls :
        \/ CallSearch(c)
        \/ CallDetail(c)
        \/ CallCloseSession(c)

-----------------------------------------------------------------------------
(* The loop of community_monitoring_job, with the outcome of each call it   *)
(* awaits chosen freely: the call returns, or it raises an Exception.      *)

\* mutation of job_except: the cycle has no try block of its own
job_except_inner_only(pc) ==
    IF pc \in {"analyze", "add"} THEN "continue" ELSE "exited"

\* where the job goes on when the call at pc raises: the try block in the
\* for loop logs and continues with the next community, the try block of
\* the cycle logs and falls through to the sleep; the sleep stands in no
\* try block
job_except(pc) ==
    IF pc \in {"analyze", "add"} THEN "continue"
    ELSE IF pc \in {"search", "broadcast"} THEN "sleep"
    ELSE "exited"

\* the position after community number index of found has been dealt with
next_community(index, found) == IF index < found THEN "analyze" ELSE "after_loop"

\* the job goes on at the place an exception raised at job_pc leads to
JobRaises ==
    LET handler == job_except(job_pc) IN
    IF handler = "continue"
    THEN /\ job_pc' = next_community(job_index, job_found)
         /\ job_index' = job_index + 1
         /\ UNCHANGED <<job_cycle, job_found, job_new_alerts>>
    ELSE /\ job_pc' = handler
         /\ UNCHANGED <<job_cycle, job_found, job_index, job_new_alerts>>

JobIdle ==
    /\ job_pc = "idle"
    /\ job_cycle = 0
    /\ job_found = 0
    /\ job_index = 0
    /\ job_new_alerts = 0

\* the first cycle begins
JobStart ==
    /\ job_pc = "search"
    /\ job_cycle = 1
    /\ job_found = 0
    /\ job_index = 0
    /\ job_new_alerts = 0

\* communities = await self.telegram_scout.search_crypto_communities(...)
\* and new_alerts = 0
SearchCryptoCommunities ==
    /\ job_pc = "search"
    /\ \/ JobRaises
       \/ \E found \in 0..MaxCommunities :
             /\ job_found' = found
             /\ job_index' = 1
             /\ job_new_alerts' = 0
             /\ job_pc' = next_community(0, found)
             /\ UNCHANGED job_cycle
    /\ UNCHANGED <<community_vars, research_vars, store_vars, format_vars, call_vars>>

\* analysis = await self.project_analyzer.analyze_project(community)
JobAnalyzeProject ==
    /\ job_pc = "analyze"
    /\ \/ JobRaises
       \/ /\ job_pc' = "add"
          /\ UNCHANGED <<job_cycle, job_found, job_index, job_new_alerts>>
    /\ UNCHANGED <<community_vars, research_vars, store_vars, format_vars, call_vars>>

\* if self.db.add_community_alert(alert): new_alerts += 1
JobAddCommunityAlert ==
    /\ job_pc = "add"
    /\ \/ JobRaises
       \/ \E added \in BOOLEAN :
             /\ job_new_alerts' = IF added THEN job_new_alerts + 1 ELSE job_new_alerts
             /\ job_pc' = next_community(job_index, job_found)
             /\ job_index' = job_index + 1
             /\ UNCHANGED <<job_cycle, job_found>>
    /\ UNCHANGED <<community_vars, research_vars, store_vars, format_vars, call_vars>>

\* if new_alerts > 0: the alerts are broadcast; else the cycle is over
JobAfterLoop ==
    /\ job_pc = "after_loop"
    /\ job_pc' = IF job_new_alerts > 0 THEN "broadcast" ELSE "sleep"
    /\ UNCHANGED <<job_cycle, job_found, job_index, job_new_alerts>>
    /\ UNCHANGED <<community_vars, research_vars, store_vars, format_vars, call_vars>>

\* await self.broadcast_community_alerts()
JobBroadcast ==
    /\ job_pc = "broadcast"
    /\ \/ JobRaises
       \/ /\ job_pc' = "sleep"
          /\ UNCHANGED <<job_cycle, job_found, job_index, job_new_alerts>>
    /\ UNCHANGED <<community_vars, research_vars, store_vars, format_vars, call_vars>>

\* await asyncio.sleep(7200), and the next cycle begins
JobSleep ==
    /\ job_pc = "sleep"
    /\ job_cycle < MaxCycles
    /\ job_pc' = "search"
    /\ job_cycle' = job_cycle + 1
    /\ UNCHANGED <<job_found, job_index, job_new_alerts>>
    /\ UNCHANGED <<community_vars, research_vars, store_vars, format_vars, call_vars>>

-----------------------------------------------------------------------------
(* Specification: a behaviour scores one community, researches one project, *)
(* calls identify_project_needs, works on the alert store, formats         *)
(* messages, runs the cycles of the monitoring job, or makes several       *)
(* research calls on the one ProjectResearcher                             *)

Init ==
    \/ CommunityStart /\ ResearchIdle /\ StoreIdle /\ FormatIdle /\ JobIdle /\ CallsIdle
    \/ CommunityIdle /\ ResearchStart /\ StoreIdle /\ FormatIdle /\ JobIdle /\ CallsIdle
    \/ CommunityIdle /\ NeedsCallStart /\ StoreIdle /\ FormatIdle /\ JobIdle /\ CallsIdle
    \/ CommunityIdle /\ ResearchIdle /\ StoreStart /\ FormatIdle /\ JobIdle /\ CallsIdle
    \/ CommunityIdle /\ ResearchIdle /\ StoreIdle /\ FormatStart /\ JobIdle /\ CallsIdle
    \/ CommunityIdle /\ ResearchIdle /\ StoreIdle /\ FormatIdle /\ JobStart /\ CallsIdle
    \/ CommunityIdle /\ ResearchIdle /\ StoreIdle /\ FormatIdle /\ JobIdle /\ CallsStart

Next ==
    \/ DetectIndicators
    \/ CalculateLegitimacyScore
    \/ DetermineRiskLevel
    \/ AnalyzeProject
    \/ InitSession
    \/ GatherBasicProjectInfo
    \/ AnalyzeSocialPresence
    \/ AnalyzeTechnicalAspects
    \/ AnalyzeTeam
    \/ AnalyzeCommunityHealth
    \/ AnalyzeTokenomicsDeep
    \/ IdentifyProjectNeeds
    \/ CallIdentifyProjectNeeds
    \/ CreateLegitimacyAnalysis
    \/ CloseSession
    \/ AddCommunityAlert
    \/ BroadcastCommunityAlerts
    \/ SendCommunityAlertReturns
    \/ FormatCommunityAlert
    \/ FormatProjectOverview
    \/ FormatDetailedAnalysis
    \/ FormatJobOpportunities
    \/ FormatActionPlan
    \/ SearchCryptoCommunities
    \/ JobAnalyzeProject
    \/ JobAddCommunityAlert
    \/ JobAfterLoop
    \/ JobBroadcast
    \/ JobSleep
    \/ ResearchCall

Spec == Init /\ [][Next]_vars

\* the bot works on the alert store only
StoreInit ==
    CommunityIdle /\ ResearchIdle /\ StoreStart /\ FormatIdle /\ JobIdle /\ CallsIdle

\* a step of a scan or of a broadcast
StoreNext ==
    \/ AddCommunityAlert
    \/ BroadcastCommunityAlerts
    \/ SendCommunityAlertReturns

\* the scans and broadcasts under the scheduling of the event loop, which
\* keeps running the tasks it holds: a broadcast suspended in an await is
\* resumed, and a scan that added an alert reaches its call of
\* broadcast_community_alerts; the cycles of the monitoring job that find
\* no new community change nothing
LiveSpec ==
    /\ StoreInit
    /\ [][StoreNext]_vars
    /\ WF_vars(SendCommunityAlertReturns)
    /\ \A p \in Broadcasters : WF_vars(ScanEndsInBroadcast(p))

-----------------------------------------------------------------------------
(* Properties of the community scoring engine *)

\* the elements of a list
Range(xs) == {xs[k] : k \in 1..Len(xs)}

\* number of phrases of a lexicon list that occur in the lower-cased text
MatchedPhrases(phrases, text_lower) ==
    Cardinality({k \in 1..Len(phrases) : IsIn(phrases[k], text_lower)})

\* number of regular-expression matches over a list of patterns
RECURSIVE PatternMatches(_, _)
PatternMatches(patterns, text_lower) ==
    IF Len(patterns) = 0 THEN 0
    ELSE Len(re_findall(Head(patterns), text_lower))
         + PatternMatches(Tail(patterns), text_lower)

TextHasHighRisk(info) ==
    LET text_lower == lower(all_text_of(info))
    IN MatchedPhrases(TelegramScout.scam_indicators.high_risk, text_lower) > 0

Severity(risk) ==
    CASE risk = ScamRisk.LOW -> 0
      [] risk = ScamRisk.MEDIUM -> 1
      [] risk = ScamRisk.HIGH -> 2
      [] risk = ScamRisk.CRITICAL -> 3

AnalyzeProjectCalled == score_pc = "called"

\* C1: whenever analyze_project has been called on a community whose text
\* contains a phrase of the high_risk lexicon, it has returned a
\* ProjectAnalysis whose risk tier is CRITICAL.
C1_HighRiskTextYieldsCritical ==
    (AnalyzeProjectCalled /\ TextHasHighRisk(community_info))
        => (/\ ~analysis_result.raised
            /\ analysis_result.value[1].risk_level = ScamRisk.CRITICAL)

InScoreRange(units) == 0 <= units /\ units <= 100 * ScoreScale
InPointRange(points) == 0 <= points /\ points <= 100
IsSet(v) == DOMAIN v # {}

\* C2: every dimension score (social, technical, team, tokenomics,
\* community) and the legitimacy score of both paths lies in [0,100].
C2_ScoresInRange ==
    /\ score_pc \in {"scored", "rated"} => InScoreRange(legitimacy_score)
    /\ IsSet(social_analysis) => InPointRange(social_analysis.overall_score)
    /\ IsSet(technical_analysis) => InPointRange(technical_analysis.technical_score)
    /\ IsSet(team_analysis) => InPointRange(team_analysis.team_score)
    /\ IsSet(tokenomics_analysis) => InPointRange(tokenomics_analysis.tokenomics_score)
    /\ IsSet(community_analysis) => InPointRange(community_analysis.community_score)
    /\ IsSet(legitimacy_analysis) => InScoreRange(legitimacy_analysis.legitimacy_score)

\* a score that the clamp brought back from below zero
C2_Witness ==
    /\ score_pc = "scored"
    /\ legitimacy_score = 0
    /\ base_score_of(scam_indicators, positive_indicators, community_info) < 0

EmptyCommunity ==
    /\ score_pc # "idle"
    /\ community_info.title = ""
    /\ community_info.description = ""
    /\ community_info.recent_messages = <<>>
    /\ community_info.admin_count = 0
    /\ ~community_info.verified
    /\ ~community_info.restricted
    /\ community_info.creation_date = None

\* C3 as stated: for empty text and empty metrics the scoring engine yields
\* the base score 50 and the least severe tier LOW.
C3_EmptyYieldsBaseAndLow ==
    (EmptyCommunity /\ score_pc = "rated")
        => (/\ scam_indicators = <<>>
            /\ positive_indicators = <<>>
            /\ legitimacy_score = 50 * ScoreScale
            /\ risk_level = ScamRisk.LOW)

\* C3 as amended: for empty text and empty metrics no indicator is matched,
\* calculate_legitimacy_score yields the base score 50 and
\* determine_risk_level yields the tier MEDIUM.
C3_EmptyYieldsBaseAndMedium ==
    (EmptyCommunity /\ score_pc = "rated")
        => (/\ scam_indicators = <<>>
            /\ positive_indicators = <<>>
            /\ legitimacy_score = 50 * ScoreScale
            /\ risk_level = ScamRisk.MEDIUM)

C3_Witness == EmptyCommunity /\ score_pc = "rated"

\* the tier the claim assigns to a score when no high-risk phrase matched
StepTier(units) ==
    IF units < 20 * ScoreScale THEN "critical"
    ELSE IF units < 40 * ScoreScale THEN "high"
    ELSE IF units < 60 * ScoreScale THEN "medium"
    ELSE "low"

\* the scores 0, 1, 2, ..., 100
ScoreGrid == {h * ScoreScale : h \in 0..100}

\* C4: when no high-risk phrase is matched the tier is the step function of
\* the score (CRITICAL below 20, HIGH below 40, MEDIUM below 60, LOW from
\* 60), and no lower score gets a less severe tier.
C4_RiskIsStepFunction ==
    (score_pc = "rated" /\ ~TextHasHighRisk(community_info))
        => (/\ risk_level = StepTier(legitimacy_score)
            /\ \A s \in ScoreGrid :
                  s <= legitimacy_score
                    => Severity(determine_risk_level(s, scam_indicators))
                         >= Severity(risk_level))

\* a score exactly on a threshold, without a high-risk phrase
C4_Witness ==
    /\ score_pc = "rated"
    /\ ~TextHasHighRisk(community_info)
    /\ legitimacy_score = 40 * ScoreScale
    /\ risk_level = ScamRisk.MEDIUM

\* C5: without a creation date the score is
\* clamp(50 - 20 H - 10 M - 5 P + 8 pos + 12 team + 10 tech
\*       + 5 [admin_count > 1] + 15 [verified] - 10 [restricted]),
\* whatever heuristic indicators were added.
C5_ScoreFormula ==
    (score_pc = "scored" /\ community_info.creation_date = None)
        => LET text == lower(all_text_of(community_info))
               H == MatchedPhrases(TelegramScout.scam_indicators.high_risk, text)
               M == MatchedPhrases(TelegramScout.scam_indicators.medium_risk, text)
               P == PatternMatches(TelegramScout.scam_indicators.suspicious_patterns, text)
               pos == MatchedPhrases(TelegramScout.legitimacy_indicators.positive, text)
               team == MatchedPhrases(TelegramScout.legitimacy_indicators.team_indicators, text)
               tech == MatchedPhrases(TelegramScout.legitimacy_indicators.tech_indicators, text)
               points == 50 - 20 * H - 10 * M - 5 * P + 8 * pos + 12 * team + 10 * tech
                         + (IF community_info.admin_count > 1 THEN 5 ELSE 0)
                         + (IF community_info.verified THEN 15 ELSE 0)
                         - (IF community_info.restricted THEN 10 ELSE 0)
           IN legitimacy_score = Max(0, Min(100, points)) * ScoreScale

\* an unclamped score of a text that carries every heuristic indicator
C5_Witness ==
    /\ score_pc = "scored"
    /\ community_info.creation_date = None
    /\ "EXCESSIVE HYPE EMOJIS" \in Range(scam_indicators)
    /\ "MULTIPLE SUSPICIOUS LINKS" \in Range(scam_indicators)
    /\ {"GITHUB REPOSITORY", "SECURITY AUDIT", "DOCUMENTATION"}
          \subseteq Range(positive_indicators)
    /\ 0 < legitimacy_score
    /\ legitimacy_score < 100 * ScoreScale

\* C6: analyze_project completes and returns a ProjectAnalysis for every
\* TelegramCommunityInfo.
C6_AnalyzeProjectReturns ==
    AnalyzeProjectCalled => ~analysis_result.raised

-----------------------------------------------------------------------------
(* Properties of the needs deriver *)

\* identify_project_needs has just been executed
NeedsDerived ==
    \/ research_pc = "legitimacy"
    \/ research_pc = "finally" /\ project_needs.raised

MarketCapOf(info) == Get(Get(info, "market_data", <<>>), "market_cap", Some(0))

\* C7: when basic_info has no market_data, or market_data whose market_cap
\* is missing or None, identify_project_needs completes and returns what it
\* returns for a market cap of 0.
C7_MissingMarketCapIsZero ==
    (NeedsDerived /\ ("market_data" \notin DOMAIN basic_info
                         \/ "market_cap" \notin DOMAIN basic_info.market_data
                         \/ basic_info.market_data.market_cap = None))
        => (/\ ~project_needs.raised
            /\ project_needs =
                  identify_project_needs(
                      Update(basic_info, [market_data |-> [market_cap |-> Some(0)]]),
                      social_analysis, technical_analysis, team_analysis,
                      community_analysis))

\* the inputs research_project_comprehensive hands to identify_project_needs
\* when the market-data API answers r
NeedsInputs(r) ==
    LET info == gather_basic_project_info("open", project_identifier, r)
    IN [info |-> info,
        social |-> analyze_social_presence(project_identifier, info),
        technical |-> analyze_technical_aspects(project_identifier, info),
        team |-> analyze_team(project_identifier, info),
        community |-> analyze_community_health(project_identifier, info)]

NeedsOf(in) ==
    identify_project_needs(in.info, in.social, in.technical, in.team, in.community)

CurrentInputs ==
    [info |-> basic_info, social |-> social_analysis, technical |-> technical_analysis,
     team |-> team_analysis, community |-> community_analysis]

\* the three primary scores and the market cap
PrimaryKey(in) ==
    <<in.social.overall_score, in.technical.technical_score, in.team.team_score,
      MarketCapOf(in.info)>>

\* the further input facts the opportunity list depends on
SecondaryKey(in) ==
    <<"twitter" \in Range(in.social.missing_platforms),
      Get(in.social.telegram, "members", 0) < 1000,
      "whitepaper" \in Range(in.technical.missing_elements),
      "github_repository" \in Range(in.technical.missing_elements)>>

\* every input the pipeline can hand to identify_project_needs, with the
\* result of the call on it
NeedsCases ==
    {[in |-> NeedsInputs(r), out |-> NeedsOf(NeedsInputs(r))] : r \in Responses}

SameOpportunities(a, b) ==
    /\ a.raised = b.raised
    /\ ~a.raised => a.value[1].job_opportunities = b.value[1].job_opportunities

\* C8 as stated: two calls of identify_project_needs that agree on the three
\* primary scores and the market cap return the same opportunity list in
\* the same order, whatever the other input fields are.
C8_DeterminedByScoresAndCap ==
    NeedsDerived
        => \A other \in NeedsCases :
              PrimaryKey(other.in) = PrimaryKey(CurrentInputs)
                => SameOpportunities(other.out, project_needs)

\* C8 as amended: two calls that agree on the three primary scores, the
\* market cap, and on whether twitter is a missing platform, whether the
\* Telegram member count is below 1000, and whether whitepaper and
\* github_repository are missing technical elements, return the same
\* opportunity list in the same order, whatever the other input fields are.
C8_DeterminedByScoresCapAndMissing ==
    NeedsDerived
        => \A other \in NeedsCases :
              (/\ PrimaryKey(other.in) = PrimaryKey(CurrentInputs)
               /\ SecondaryKey(other.in) = SecondaryKey(CurrentInputs))
                => SameOpportunities(other.out, project_needs)

\* a completed call for which another input with the same keys exists
C8_Witness ==
    /\ research_pc = "legitimacy"
    /\ \E other \in NeedsCases :
          /\ other.in # CurrentInputs
          /\ other.in.info.description # basic_info.description
          /\ PrimaryKey(other.in) = PrimaryKey(CurrentInputs)
          /\ SecondaryKey(other.in) = SecondaryKey(CurrentInputs)

Bit(b) == IF b THEN 1 ELSE 0

Opportunities == project_needs.value[1].job_opportunities

CountCategory(category) ==
    Cardinality({k \in 1..Len(Opportunities) : Opportunities[k].category = category})

SocialLow == social_analysis.overall_score < 70
TechnicalLow == technical_analysis.technical_score < 60
TeamLow == team_analysis.team_score < 50
SmallCap == MarketCapOf(basic_info)[1] < 10000000

\* C9 as stated: the number of opportunities equals the number of triggered
\* checks among social score < 70, technical score < 60, team score < 50,
\* no professional branding and market cap < 10,000,000.
C9_OnePerTriggeredCheck ==
    research_pc = "legitimacy"
        => Len(Opportunities)
             = Bit(SocialLow) + Bit(TechnicalLow) + Bit(TeamLow) + 1 + Bit(SmallCap)

\* C9 as amended: the team, branding and market cap checks append exactly
\* one opportunity each when triggered; the social check appends one for
\* each of its sub-conditions that holds (twitter missing, Telegram members
\* below 1000), the technical check one for each of whitepaper and
\* github_repository that is missing; the number of opportunities is the
\* number of these seven conditions that hold.
C9_OnePerCondition ==
    research_pc = "legitimacy"
        => LET key == SecondaryKey(CurrentInputs) IN
           /\ CountCategory(JobCategory.SOCIAL_MEDIA) = Bit(SocialLow /\ key[1])
           /\ CountCategory(JobCategory.COMMUNITY_MANAGEMENT) = Bit(SocialLow /\ key[2])
           /\ CountCategory(JobCategory.TECHNICAL_WRITING) = Bit(TechnicalLow /\ key[3])
           /\ CountCategory(JobCategory.DEVELOPMENT) = Bit(TechnicalLow /\ key[4])
           /\ CountCategory(JobCategory.PR_MARKETING) = Bit(TeamLow)
           /\ CountCategory(JobCategory.GRAPHICS_DESIGN) = 1
           /\ CountCategory(JobCategory.BUSINESS_DEVELOPMENT) = Bit(SmallCap)
           /\ Len(Opportunities)
                = Bit(SocialLow /\ key[1]) + Bit(SocialLow /\ key[2])
                  + Bit(TechnicalLow /\ key[3]) + Bit(TechnicalLow /\ key[4])
                  + Bit(TeamLow) + 1 + Bit(SmallCap)

\* a triggered technical check that appends two opportunities
C9_Witness ==
    /\ research_pc = "legitimacy"
    /\ TechnicalLow
    /\ CountCategory(JobCategory.TECHNICAL_WRITING) = 1
    /\ CountCategory(JobCategory.DEVELOPMENT) = 1

\* the pitch text carries the strategy, the approach and every key point
BuiltFrom(pitch, entry) ==
    /\ IsIn(entry.strategy, pitch)
    /\ IsIn(entry.approach, pitch)
    /\ \A k \in 1..Len(entry.key_points) : IsIn(entry.key_points[k], pitch)

GenericPitch ==
    "Research the project thoroughly and propose specific improvements in your area of expertise."

\* C10 as stated: every opportunity carries a pitch text built from the
\* pitch_strategies entry of its own category.
C10_PitchFromOwnEntry ==
    research_pc = "legitimacy"
        => \A k \in 1..Len(Opportunities) :
              /\ Opportunities[k].category \in DOMAIN pitch_strategies
              /\ BuiltFrom(Opportunities[k].pitch_strategy,
                           pitch_strategies[Opportunities[k].category])

\* C10 as amended: an opportunity of a category that has an entry in
\* pitch_strategies (SOCIAL_MEDIA, COMMUNITY_MANAGEMENT, PR_MARKETING,
\* GRAPHICS_DESIGN, BUSINESS_DEVELOPMENT) carries a pitch text built from
\* that entry and from no other; TECHNICAL_WRITING and DEVELOPMENT have no
\* entry and carry the generic fallback text.
C10_PitchFromOwnEntryOrGeneric ==
    research_pc = "legitimacy"
        => \A k \in 1..Len(Opportunities) :
              LET o == Opportunities[k] IN
              IF o.category \in DOMAIN pitch_strategies
              THEN /\ BuiltFrom(o.pitch_strategy, pitch_strategies[o.category])
                   /\ \A c \in DOMAIN pitch_strategies \ {o.category} :
                         ~IsIn(pitch_strategies[c].strategy, o.pitch_strategy)
              ELSE /\ o.category \in {JobCategory.TECHNICAL_WRITING,
                                       JobCategory.DEVELOPMENT}
                   /\ o.pitch_strategy = GenericPitch

\* a list with opportunities of both kinds
C10_Witness ==
    /\ research_pc = "legitimacy"
    /\ CountCategory(JobCategory.TECHNICAL_WRITING) = 1
    /\ CountCategory(JobCategory.BUSINESS_DEVELOPMENT) = 1

-----------------------------------------------------------------------------
(* Properties of the needs deriver, continued *)

\* identify_project_needs has returned, in the pipeline or to a direct caller
NeedsReturned ==
    /\ research_pc \in {"legitimacy", "needs_returned"}
    /\ ~project_needs.raised

\* values of JobCategory in the order of the checks
FixedOrder ==
    <<"social_media", "community_management", "technical_writing", "development",
      "pr_marketing", "graphics_design", "business_development">>

PositionInFixedOrder(category) ==
    IF \E p \in 1..Len(FixedOrder) : FixedOrder[p] = category
    THEN CHOOSE p \in 1..Len(FixedOrder) : FixedOrder[p] = category
    ELSE 0

\* C11: the opportunity list returned by identify_project_needs is a
\* subsequence of the fixed order of categories with no category repeated,
\* and it is the list the function yields for the inputs it was called on.
C11_SubsequenceOfFixedOrder ==
    NeedsReturned
        => /\ \A k \in 1..Len(Opportunities) :
                 PositionInFixedOrder(Opportunities[k].category) > 0
           /\ \A k \in 1..(Len(Opportunities) - 1) :
                 PositionInFixedOrder(Opportunities[k].category)
                   < PositionInFixedOrder(Opportunities[k + 1].category)
           /\ project_needs = NeedsOf(CurrentInputs)

\* a list that skips categories of the fixed order
C11_Witness ==
    /\ NeedsReturned
    /\ Len(Opportunities) = 3
    /\ Opportunities[1].category = "technical_writing"
    /\ Opportunities[3].category = "graphics_design"

ScoreSum ==
    social_analysis.overall_score + technical_analysis.technical_score
    + team_analysis.team_score

\* C12: the maturity label is 'early' when the average of the social,
\* technical and team scores is below 40, 'developing' when it is at least
\* 40 and below 70, 'mature' when it is 70 or more; scores 45, 55, 30 give
\* 'developing'.
C12_MaturityIsBucketedAverage ==
    NeedsReturned
        => /\ ScoreSum < 3 * 40 => project_needs.value[1].overall_maturity = "early"
           /\ (3 * 40 <= ScoreSum /\ ScoreSum < 3 * 70)
                 => project_needs.value[1].overall_maturity = "developing"
           /\ ScoreSum >= 3 * 70 => project_needs.value[1].overall_maturity = "mature"
           /\ (/\ social_analysis.overall_score = 45
               /\ technical_analysis.technical_score = 55
               /\ team_analysis.team_score = 30)
                 => project_needs.value[1].overall_maturity = "developing"

\* the example of the claim
C12_Witness ==
    /\ research_pc = "needs_returned"
    /\ ~project_needs.raised
    /\ social_analysis.overall_score = 45
    /\ technical_analysis.technical_score = 55
    /\ team_analysis.team_score = 30
    /\ project_needs.value[1].overall_maturity = "developing"

\* C13: a BUSINESS_DEVELOPMENT opportunity is in the returned list exactly
\* when the market cap is below 10,000,000; it then has urgency 'medium',
\* occurs once and is the last element of the list.
C13_BusinessDevelopmentBelowCap ==
    NeedsReturned
        => LET n == Len(Opportunities)
               positions == {k \in 1..n :
                                Opportunities[k].category = "business_development"}
           IN /\ (positions # {}) <=> (MarketCapOf(basic_info)[1] < 10000000)
              /\ positions # {}
                    => /\ positions = {n}
                       /\ Opportunities[n].urgency = "medium"

\* a market cap of 5,000,000 with the opportunity appended last
C13_Witness ==
    /\ NeedsReturned
    /\ MarketCapOf(basic_info) = Some(5000000)
    /\ Len(Opportunities) > 1
    /\ Opportunities[Len(Opportunities)].category = "business_development"
    /\ Opportunities[Len(Opportunities)].urgency = "medium"

\* number of distinct team keywords in the lower-cased description
TeamKeywordCount ==
    LET description == lower(Get(basic_info, "description", ""))
    IN Cardinality({w \in {"team", "founder", "ceo", "developer", "advisor"} :
                       IsIn(w, description)})

\* analyze_team has been executed in the pipeline
TeamAnalyzed ==
    research_pc \in {"community", "tokenomics", "needs", "legitimacy", "finally", "done"}

\* C14: no team keyword in the description gives transparency 'anonymous',
\* team_score 0 and 'team_information' among the missing elements; one or
\* two keywords give 'low' and team_score 10; three or more give 'medium'
\* and team_score 30.
C14_TeamTransparencyByKeywordCount ==
    TeamAnalyzed
        => LET n == TeamKeywordCount IN
           /\ n = 0 => /\ team_analysis.transparency = "anonymous"
                       /\ team_analysis.team_score = 0
                       /\ "team_information" \in Range(team_analysis.missing_elements)
           /\ n \in {1, 2} => /\ team_analysis.transparency = "low"
                              /\ team_analysis.team_score = 10
           /\ n >= 3 => /\ team_analysis.transparency = "medium"
                        /\ team_analysis.team_score = 30

\* a description with exactly three team keywords
C14_Witness ==
    /\ research_pc = "community"
    /\ TeamKeywordCount = 3
    /\ team_analysis.transparency = "medium"
    /\ team_analysis.team_score = 30

HasHighRiskEntry(indicators) ==
    \E k \in 1..Len(indicators) : IsIn("HIGH RISK", indicators[k])

\* C15: every ProjectAnalysis produced, by analyze_project or by
\* create_legitimacy_analysis, whose scam_indicators contain an entry
\* labelled HIGH RISK has risk tier CRITICAL.
C15_HighRiskEntryIsCritical ==
    /\ (AnalyzeProjectCalled /\ ~analysis_result.raised)
          => (HasHighRiskEntry(analysis_result.value[1].scam_indicators)
                => analysis_result.value[1].risk_level = ScamRisk.CRITICAL)
    /\ IsSet(legitimacy_analysis)
          => (HasHighRiskEntry(legitimacy_analysis.scam_indicators)
                => legitimacy_analysis.risk_level = ScamRisk.CRITICAL)

-----------------------------------------------------------------------------
(* Properties of the alert store                                           *)

\* the rows of the table with a unique_id
RowsOf(table, unique_id) == {k \in 1..Len(table) : table[k].unique_id = unique_id}

\* C16: add_community_alert inserts if absent: the table never holds two rows
\* with one unique_id; a call for an id without row returns True and appends
\* the row, unsent; a call for an id with a row returns False, raises nothing
\* and leaves the table, the sent flag of the row included, as it was.
C16_InsertIfAbsent ==
    StoreInUse =>
        /\ \A a, b \in 1..Len(telegram_communities) :
              telegram_communities[a].unique_id = telegram_communities[b].unique_id
                  => a = b
        /\ \A n \in 1..Len(add_log) :
              LET call == add_log[n]
                  known == RowsOf(call.before, call.alert.unique_id) # {}
              IN /\ ~call.result.raised
                 /\ call.result.value = Some(~known)
                 /\ known => call.after = call.before
                 /\ ~known =>
                       /\ Len(call.after) = Len(call.before) + 1
                       /\ SubSeq(call.after, 1, Len(call.before)) = call.before
                       /\ call.after[Len(call.after)].unique_id = call.alert.unique_id
                       /\ call.after[Len(call.after)].title = call.alert.community_info.title
                       /\ ~call.after[Len(call.after)].sent

\* a second scan offers a community whose row is already marked sent, with
\* another member count and another analysis, and the call returns False
C16_Witness ==
    /\ StoreInUse
    /\ \E n \in 1..Len(add_log) :
          /\ add_log[n].result = Return(FALSE)
          /\ \E k \in RowsOf(add_log[n].before, add_log[n].alert.unique_id) :
                /\ add_log[n].before[k].sent
                /\ add_log[n].before[k].member_count
                       # add_log[n].alert.community_info.member_count
                /\ add_log[n].before[k].risk_level
                       # add_log[n].alert.project_analysis.risk_level

\* C17: no step of the store operations deletes a row, sets a sent flag from
\* true back to false, or changes another column of a row: every row of the
\* table is after the step the row it was, or that row with sent = TRUE.
C17_RowsOnlyGainSent ==
    [][StoreInUse =>
          /\ Len(telegram_communities') >= Len(telegram_communities)
          /\ \A k \in 1..Len(telegram_communities) :
                \/ telegram_communities'[k] = telegram_communities[k]
                \/ telegram_communities'[k]
                       = [telegram_communities[k] EXCEPT !.sent = TRUE]]_vars

\* both broadcasts fetched an alert before either marked it, both have
\* returned and so both have marked it, and the row is marked sent; a later
\* add for its id was answered False
C17_Witness ==
    /\ StoreInUse
    /\ \A p \in Broadcasters :
          /\ broadcast[p].outcome = "returned"
          /\ broadcast[p].pc = "idle"
          /\ Len(broadcast[p].alerts) = 1
    /\ \E m1, m2 \in sent_messages : m1.by # m2.by /\ m1.alert = m2.alert
    /\ Len(telegram_communities) = 1
    /\ telegram_communities[1].sent
    /\ Len(add_log) = MaxAdds
    /\ add_log[Len(add_log)].result = Return(FALSE)
    /\ add_log[Len(add_log)].before[1].sent

-----------------------------------------------------------------------------
(* Properties of the broadcast                                             *)

\* the messages handed to bot.send_message for an alert
DispatchesOf(unique_id) == {m \in sent_messages : m.alert.unique_id = unique_id}

\* C18: a row is marked sent only after its alert was handed to
\* send_message for at least one subscriber.
C18_SentOnlyAfterDispatch ==
    StoreInUse =>
        \A k \in 1..Len(telegram_communities) :
            telegram_communities[k].sent
                => DispatchesOf(telegram_communities[k].unique_id) # {}

\* C19: no alert of risk tier CRITICAL is handed to send_message, whatever
\* the preferences of the subscribers; an alert whose indicators hold a
\* 'HIGH RISK' entry has that tier and so is never handed over either.
C19_CriticalNeverDispatched ==
    StoreInUse =>
        \A m \in sent_messages :
            /\ m.alert.project_analysis.risk_level # ScamRisk.CRITICAL
            /\ ~HasHighRiskEntry(m.alert.project_analysis.scam_indicators)

\* a broadcast has gone through an alert of tier CRITICAL by score and one
\* with a 'HIGH RISK' entry while a subscriber takes every size, and has
\* marked both without a dispatch
C19_Witness ==
    /\ StoreInUse
    /\ \E c \in Chats :
          subscribers[c] = Some([telegram_communities |-> TRUE,
                                 community_size_filters |-> <<>>])
    /\ \E p \in Broadcasters :
          /\ broadcast[p].outcome = "returned"
          /\ Len(broadcast[p].alerts) = 2
          /\ \E a, b \in 1..2 :
                /\ ~HasHighRiskEntry(broadcast[p].alerts[a].project_analysis.scam_indicators)
                /\ broadcast[p].alerts[a].project_analysis.risk_level = ScamRisk.CRITICAL
                /\ HasHighRiskEntry(broadcast[p].alerts[b].project_analysis.scam_indicators)
                /\ broadcast[p].alerts[b].project_analysis.risk_level = ScamRisk.CRITICAL
    /\ \A k \in 1..Len(telegram_communities) : telegram_communities[k].sent
    /\ sent_messages = {}

\* C20: an alert is handed to send_message for a subscriber only if
\* preferences are stored for the subscriber, the preferences have Telegram
\* communities enabled, and their size filter list is empty or holds the
\* value of the alert's size category.
C20_DispatchRespectsPreferences ==
    StoreInUse =>
        \A m \in sent_messages :
            /\ subscribers[m.chat_id] # None
            /\ subscribers[m.chat_id][1].telegram_communities
            /\ \/ subscribers[m.chat_id][1].community_size_filters = <<>>
               \/ \E k \in 1..Len(subscribers[m.chat_id][1].community_size_filters) :
                     subscribers[m.chat_id][1].community_size_filters[k]
                         = size_category_of(m.alert.community_info.member_count)

\* a broadcast has returned after it went through an alert of size '1-30'
\* that is not critical: the subscriber filtering on '31-50' and '201-500'
\* was passed over, the subscriber filtering on '1-30' got the alert
C20_Witness ==
    /\ StoreInUse
    /\ subscribers[101] = Some([telegram_communities |-> TRUE,
                                community_size_filters |-> <<"31-50", "201-500">>])
    /\ subscribers[102] = Some([telegram_communities |-> TRUE,
                                community_size_filters |-> <<"1-30">>])
    /\ \E p \in Broadcasters :
          /\ broadcast[p].outcome = "returned"
          /\ \E m \in sent_messages :
                /\ m.by = p
                /\ m.chat_id = 102
                /\ m.alert.size_category = CommunitySize.MICRO
                /\ \A n \in sent_messages :
                      n.alert.unique_id = m.alert.unique_id => n.chat_id = 102

-----------------------------------------------------------------------------
(* Properties of research_project_comprehensive                            *)

\* research_project_comprehensive has left its try block
ResearchEnded == research_pc \in {"finally", "done"}

\* the categories of a list of opportunities, in order
CategoriesOf(jobs) == [k \in 1..Len(jobs) |-> jobs[k].category]

\* C21: when the market-data fetch fails (the request raises, a status is
\* not 200, or the search finds no coin), research_project_comprehensive
\* returns an analysis with project_name the identifier, social, technical
\* and team score 0, maturity 'early' and the seven opportunities in the
\* fixed order.
C21_FailedFetchYieldsBaselineAnalysis ==
    (ResearchEnded /\ api_response \in FailedResponses)
        => /\ ~research_result.raised
           /\ research_result.value # None
           /\ LET analysis == research_result.value[1] IN
              /\ analysis.project_name = Some(project_identifier)
              /\ analysis.social_presence.overall_score = 0
              /\ analysis.technical_analysis.technical_score = 0
              /\ analysis.team_analysis.team_score = 0
              /\ analysis.project_needs.overall_maturity = "early"
              /\ CategoriesOf(analysis.project_needs.job_opportunities) = FixedOrder

\* the detail request answered 404 and the call has returned
C21_Witness ==
    /\ research_pc = "done"
    /\ api_response \in FailedResponses
    /\ api_response.detail_status = 404
    /\ ~research_result.raised
    /\ Len(research_result.value[1].project_needs.job_opportunities) = 7

\* C28: every analysis research_project_comprehensive returns has a social
\* score of at most 55, a technical score of at most 40 and a team score of
\* at most 30; so its risk level is HIGH or CRITICAL, its maturity is not
\* 'mature' and its list of strengths is empty.
C28_ScoresStayBelowTheirCeilings ==
    (ResearchEnded /\ ~research_result.raised)
        => LET analysis == research_result.value[1] IN
           /\ analysis.social_presence.overall_score <= 55
           /\ analysis.technical_analysis.technical_score <= 40
           /\ analysis.team_analysis.team_score <= 30
           /\ analysis.legitimacy_analysis.risk_level \in {ScamRisk.HIGH, ScamRisk.CRITICAL}
           /\ analysis.project_needs.overall_maturity # "mature"
           /\ analysis.project_needs.strengths = <<>>

\* a returned analysis with all three scores at their ceilings: the risk
\* level is HIGH and the maturity 'developing'
C28_Witness ==
    /\ research_pc = "done"
    /\ ~research_result.raised
    /\ LET analysis == research_result.value[1] IN
       /\ analysis.social_presence.overall_score = 55
       /\ analysis.technical_analysis.technical_score = 40
       /\ analysis.team_analysis.team_score = 30
       /\ analysis.legitimacy_analysis.risk_level = ScamRisk.HIGH
       /\ analysis.project_needs.overall_maturity = "developing"

\* the scores of [0, 100], in units, for which the research path assigns a
\* less severe risk level than the community path
LessSevereInResearch ==
    {s \in 0..(100 * ScoreScale) :
        Severity(legitimacy_risk_level(s)) < Severity(determine_risk_level(s, <<>>))}

\* C29: for every legitimacy score of [0, 100] and no high-risk entry, the
\* risk level of the research path (create_legitimacy_analysis) is at least
\* as severe as that of the community path (determine_risk_level): for the
\* score a community was rated with, for the score of a returned research
\* analysis, and for every score of the range.
C29_ResearchTierAtLeastAsSevere ==
    /\ (score_pc = "rated" /\ ~HasHighRiskEntry(scam_indicators))
          => Severity(legitimacy_risk_level(legitimacy_score)) >= Severity(risk_level)
    /\ (ResearchEnded /\ ~research_result.raised)
          => LET legitimacy == research_result.value[1].legitimacy_analysis IN
             Severity(legitimacy.risk_level)
                 >= Severity(determine_risk_level(legitimacy.legitimacy_score, <<>>))
    /\ LessSevereInResearch = {}

\* a community rated HIGH by the community path, with a score between 20
\* and 30, for which the research path gives CRITICAL
C29_Witness ==
    /\ score_pc = "rated"
    /\ ~HasHighRiskEntry(scam_indicators)
    /\ risk_level = ScamRisk.HIGH
    /\ legitimacy_risk_level(legitimacy_score) = ScamRisk.CRITICAL

-----------------------------------------------------------------------------
(* Properties of the formatters                                            *)

\* text cut to a budget of characters, followed by '...' only when cut
CutTo(text, budget) ==
    IF Len(text) <= budget THEN text ELSE SubSeq(text, 1, budget) \o "..."

\* an optional string that is None or empty
Missing(x) == x = None \/ x = Some("")

\* C22: the overview renders the project description cut to 400 characters
\* and the community alert the community description cut to 300, each
\* followed by '...' only when cut; a missing or None description,
\* tokenomics, roadmap, team or invite link is rendered as a placeholder
\* text, and no formatter fails.
C22_TruncatesAndSubstitutesPlaceholders ==
    /\ format_pc = "format_project_overview" =>
          \A n \in 1..Len(format_output) :
              /\ ~format_output[n].outcome.raised
              /\ format_output[n].outcome.value[1].project_description
                     = CutTo(format_input.project_description, 400)
    /\ format_pc = "send_community_alert" =>
          \A n \in 1..Len(format_output) :
              LET community == format_input.community_info
                  analysis == format_input.project_analysis
              IN /\ ~format_output[n].outcome.raised
                 /\ LET message == format_output[n].outcome.value[1] IN
                    /\ IF Missing(community.description)
                       THEN message.project_overview # ""
                       ELSE message.project_overview = CutTo(community.description[1], 300)
                    /\ Missing(community.invite_link) => message.link = "Private"
                    /\ Missing(analysis.tokenomics_analysis)
                          => message.tokenomics = "Not analyzed"
                    /\ Missing(analysis.roadmap_quality)
                          => message.roadmap = "No roadmap info"
                    /\ Missing(analysis.team_analysis)
                          => message.team = "Team info limited"

\* C23: a formatter of the analysis applied twice yields the same text both
\* times and leaves the analysis as it was.
C23_FormattingIsIdempotent ==
    format_pc \in Formatters
        => \A n \in 1..Len(format_output) :
               /\ format_output[n].argument = format_input
               /\ format_output[n].outcome = format_output[1].outcome

\* format_job_opportunities was applied twice to an analysis with seven
\* opportunities, of which it shows four
C23_Witness ==
    /\ format_pc = "format_job_opportunities"
    /\ Len(format_output) = 2
    /\ ~format_output[2].outcome.raised
    /\ Len(format_input.project_needs.job_opportunities) = 7
    /\ Len(format_output[2].outcome.value[1].job_messages) = 4

\* the number of places of a text where a pattern stands
Occurrences(pattern, text) ==
    Cardinality({i \in 1..(Len(text) - Len(pattern) + 1) :
                    SubSeq(text, i, i + Len(pattern) - 1) = pattern})

\* the number of high-urgency opportunities of a list
HighUrgency(jobs) == Cardinality({k \in 1..Len(jobs) : jobs[k].urgency = "high"})

\* C30: the action plan lists as many priority actions as it counts
\* time-sensitive opportunities, and every high-urgency opportunity of a
\* list returned by identify_project_needs is among its first three.
C30_PriorityActionsMatchCount ==
    /\ format_pc = "format_action_plan" =>
          \A n \in 1..Len(format_output) :
              LET plan == format_output[n].outcome.value[1] IN
              /\ str_of_int(Occurrences("[fire]", plan.priority_actions))
                     = plan.time_sensitive_opportunities
              /\ plan.time_sensitive_opportunities
                     = str_of_int(HighUrgency(format_input.project_needs.job_opportunities))
    /\ NeedsReturned =>
          \A k \in 1..Len(Opportunities) : Opportunities[k].urgency = "high" => k <= 3

\* the action plan of an analysis with seven opportunities, three of them
\* of high urgency
C30_Witness ==
    /\ format_pc = "format_action_plan"
    /\ Len(format_output) > 0
    /\ Len(format_input.project_needs.job_opportunities) = 7
    /\ format_output[1].outcome.value[1].time_sensitive_opportunities = "3"
    /\ Occurrences("Act within 48 hours", format_output[1].outcome.value[1].priority_actions) = 3

\* C25: no subscriber is sent the same community alert more than once: the
\* messages handed to send_message for one unique_id and one chat all come
\* from the same call of broadcast_community_alerts, whatever the
\* interleaving of the job's broadcast with the manual command's.
C25_NoAlertSentTwiceToSubscriber ==
    StoreInUse =>
        \A m1, m2 \in sent_messages :
            m1.alert.unique_id = m2.alert.unique_id /\ m1.chat_id = m2.chat_id
                => m1.by = m2.by

\* C26: every request of a call of research_project_comprehensive is issued
\* on an open session: no call, later or in progress, uses a session that
\* the finally block of another call has closed.
C26_FetchesOnOpenSession ==
    \A n \in 1..Len(fetch_log) : fetch_log[n].session = "open"

\* the unique_ids of the alerts the scans hand to the store
AlertIds == {alert.unique_id : alert \in Alerts}

\* the table holds a row for unique_id, marked sent
MarkedSent(unique_id) ==
    \E k \in RowsOf(telegram_communities, unique_id) : telegram_communities[k].sent

\* C27: every alert record inserted into the store is eventually marked
\* sent while the scans and broadcasts keep running, also when a broadcast
\* ended with an exception and no later scan finds a new community.
C27_EveryAlertEventuallyMarkedSent ==
    \A unique_id \in AlertIds :
        (RowsOf(telegram_communities, unique_id) # {}) ~> MarkedSent(unique_id)

-----------------------------------------------------------------------------
(* Properties of community_monitoring_job                                  *)

\* the for loop of a cycle is at a community
InForLoop == job_pc \in {"analyze", "add"}

\* C24: the community monitoring loop survives failures. No step of the
\* job, whatever the call it awaits returns or raises, leaves the loop; a
\* step taken at a community, an exception included, goes on within the same
\* community or with the next one and leaves the for loop only after the last
\* community of the cycle; a cycle that is over, by its end or by an
\* exception of the search or of the broadcast, is at the sleep; and the
\* sleep is followed by the search of the next cycle.
C24_MonitoringLoopSurvivesFailures ==
    [][/\ job_pc' # "exited"
       /\ InForLoop =>
             /\ job_pc' \in {"analyze", "add", "after_loop"}
             /\ job_pc' = "after_loop" <=> job_index = job_found /\ job_index' > job_found
             /\ job_pc' = "analyze" => job_index' = job_index + 1 /\ job_index' <= job_found
             /\ job_pc' = "add" => job_index' = job_index
       /\ job_pc \in {"search", "broadcast"} /\ ~ InForLoop' /\ job_pc' # "after_loop" =>
             job_pc' = "sleep"
       /\ job_pc = "sleep" =>
             job_pc' = "search" /\ job_cycle' = job_cycle + 1]_job_vars

\* C24 witness: in its second cycle the job is at the last of two communities
\* without a new alert, so the first community of the cycle raised or was
\* known already, after a first cycle that did not end the loop
C24_Witness ==
    /\ job_cycle = MaxCycles
    /\ job_pc = "add"
    /\ job_found = 2
    /\ job_index = 2
    /\ job_new_alerts = 0

====
